---- MODULE Spec2Model ----
(***************************************************************************)
(* xenohooks: the per-event hook orchestrator.                             *)
(*                                                                         *)
(* The module models the FeedbackStore (common/feedback.py), the           *)
(* BackgroundQueue (common/task_queue.py, common/task_runner.py), the      *)
(* parallel TaskRunner (common/runner.py) and the decision engine of       *)
(* router.main.  Each component has its own specification over the shared  *)
(* variables; SpecRouter composes the store, the queue and the engine the  *)
(* way one invocation of main() does.                                      *)
(***************************************************************************)
EXTENDS Integers, Sequences, FiniteSets, TLC

VARIABLES
    now,        \* wall clock, time.time(), in seconds
    fb,         \* feedback_items table of the session: issue_id -> row
    prev,       \* history: issue_id -> outcome of the latest show-once pass
    ret,        \* the latest operation: its name, inputs and return value
    q,          \* tasks table of the session: task_id -> row
    procs,      \* the detached child processes and their output files, by task
    nextId,     \* the number of task ids handed out so far (uuid4 never repeats)
    cap,        \* max_concurrent the session's spawn calls are made with
    batch,      \* run_parallel's arguments: the descriptors and the payload
    wk,         \* the pool's work items, one per submitted descriptor
    run,        \* run_parallel's own progress: position, clock, results
    incoming,   \* the JSON files waiting in the session's incoming/ directory
    disk,       \* the cache directories: directory name -> what is stored in it
    health      \* whether the session's sqlite files open: feedback and queue

fbVars == <<fb, prev>>
qVars == <<q, procs, nextId, cap, incoming>>
runVars == <<batch, wk, run>>
diskVars == <<disk, health>>

vars == <<now, fb, prev, ret, q, procs, nextId, cap, batch, wk, run, incoming, disk, health>>

(***************************************************************************)
(* Bounds of the model.                                                    *)
(***************************************************************************)
MaxTime == 452          \* the clock stops advancing past this
MaxCount == 2           \* occurrence_count / times_shown are capped here

(***************************************************************************)
(* FeedbackStore: common/feedback.py                                       *)
(***************************************************************************)
DEFAULT_DEDUP_WINDOW == 300

None == "None"
NoRow == [absent |-> TRUE]

Strategies == {"show_once", "always", "summary_after_first", "defer"}

\* Advisory text after content.strip(): its first 100 characters (head) and
\* whatever follows them (tail).  "" as head is blank content.
Heads == {"warn x", "warn y"}
Tails == {"", "more"}
Contents == [head : Heads, tail : Tails]
Blank == [head |-> "", tail |-> ""]

FbTasks == {"lint", "sec"}

\* File paths: a directory and a file name; NoFile is file_path=None.
NoFile == [dir |-> "", name |-> ""]
Files == {NoFile, [dir |-> "a", name |-> "f.py"], [dir |-> "b", name |-> "f.py"],
          [dir |-> "a", name |-> "global"]}

\* sha256(content)[:16]: distinct contents have distinct hashes.
content_hash(content) == <<"sha", content.head, content.tail>>

\* Path(file_path).name if file_path else "global"
file_part(file) == IF file = NoFile THEN "global" ELSE file.name

\* f"{task_id}:{file_part}:{sha256(content[:100])[:8]}"
issue_id(task, file, content) == <<task, file_part(file), content.head>>

IssueIds == {issue_id(t, f, c) : t \in FbTasks, f \in Files, c \in Contents}

EmptyStore == [i \in IssueIds |-> NoRow]

cleanup_expired_keep_all(store, t) == store

cleanup_expired_off_by_window(store, t) ==
    [i \in DOMAIN store |->
        IF store[i] = NoRow THEN NoRow
        ELSE IF store[i].last_seen < t THEN NoRow ELSE store[i]]

\* DELETE FROM feedback_items WHERE last_seen < current_time - window
cleanup_expired(store, t) ==
    [i \in DOMAIN store |->
        IF store[i] = NoRow THEN NoRow
        ELSE IF store[i].last_seen < t - DEFAULT_DEDUP_WINDOW THEN NoRow ELSE store[i]]

record_row_restarts(old, content, task, file, sev, cat, strategy, t) ==
    [instance_id |-> content_hash(content), issue_id |-> issue_id(task, file, content),
     content |-> content, task_id |-> task, severity |-> sev, category |-> cat,
     file_path |-> file, strategy |-> strategy, first_seen |-> t, last_seen |-> t,
     occurrence_count |-> IF old # NoRow THEN old.occurrence_count + 1 ELSE 1,
     times_shown |-> 0]

\* The row record_feedback leaves for the issue: UPDATE of the existing row
\* (instance_id, content, last_seen, occurrence_count + 1) or INSERT.
record_row(old, content, task, file, sev, cat, strategy, t) ==
    IF old # NoRow
    THEN [old EXCEPT !.instance_id = content_hash(content),
                     !.content = content,
                     !.last_seen = t,
                     !.occurrence_count = old.occurrence_count + 1]
    ELSE [instance_id |-> content_hash(content),
          issue_id |-> issue_id(task, file, content),
          content |-> content,
          task_id |-> task,
          severity |-> sev,
          category |-> cat,
          file_path |-> file,
          strategy |-> strategy,
          first_seen |-> t,
          last_seen |-> t,
          occurrence_count |-> 1,
          times_shown |-> 0]

\* The item returned for blank content: nothing is stored.
EmptyItem(task) ==
    [instance_id |-> "empty", issue_id |-> "empty", content |-> Blank,
     task_id |-> task, severity |-> None, category |-> None, file_path |-> NoFile,
     strategy |-> "always", first_seen |-> 0, last_seen |-> 0,
     occurrence_count |-> 1, times_shown |-> 0]

\* record_feedback: the table after the call.
record_store(store, content, task, file, sev, cat, strategy, t) ==
    IF content = Blank THEN store
    ELSE LET live == cleanup_expired(store, t)
             id == issue_id(task, file, content)
             old == IF id \in DOMAIN live THEN live[id] ELSE NoRow
         IN  [i \in DOMAIN live \cup {id} |->
                IF i = id THEN record_row(old, content, task, file, sev, cat, strategy, t)
                ELSE live[i]]

\* record_feedback: the FeedbackItem it returns (the row read back).
record_item(store, content, task, file, sev, cat, strategy, t) ==
    IF content = Blank THEN EmptyItem(task)
    ELSE record_store(store, content, task, file, sev, cat, strategy, t)
            [issue_id(task, file, content)]

should_show_always(item) == TRUE

should_show_feedback(item) ==
    CASE item.strategy = "always" -> TRUE
      [] item.strategy = "show_once" -> item.times_shown = 0
      [] item.strategy = "summary_after_first" -> item.times_shown = 0
      [] item.strategy = "defer" -> FALSE
      [] OTHER -> TRUE

mark_shown_noop(store, id) == store

\* UPDATE feedback_items SET times_shown = times_shown + 1 WHERE issue_id = ?
mark_shown(store, id) ==
    IF id \in DOMAIN store /\ store[id] # NoRow
    THEN [store EXCEPT ![id].times_shown = @ + 1]
    ELSE store

\* cleanup_session: the session's database file is unlinked.
cleanup_session(store) == EmptyStore

\* Counters stay within the model's cap.
Capped(store, id) ==
    IF store[id] = NoRow THEN TRUE
    ELSE store[id].occurrence_count < MaxCount /\ store[id].times_shown < MaxCount

NoPrev == [none |-> TRUE]

TypeOK ==
    /\ now \in 0..(MaxTime + DEFAULT_DEDUP_WINDOW + 1)
    /\ DOMAIN fb = IssueIds

(***************************************************************************)
(* BackgroundQueue: common/task_queue.py and common/task_runner.py         *)
(***************************************************************************)
MaxTasks == 2           \* task ids handed out in one behaviour
QMaxTime == 61         \* the queue's clock stops advancing past this

TaskIds == 1..(MaxTasks + 1)

NoTask == [absent |-> TRUE]

\* A severity or category text: its letters in lower case, and whether the
\* text itself is written in upper case.  NoStr is None (and "").
Word(w) == [word |-> w, upper |-> FALSE]
Upper(w) == [word |-> w, upper |-> TRUE]
NoStr == Word("")

\* None in the row's numeric columns and in its error column.
NoTime == -1
NoCode == -1
NoPid == 0
NoError == [kind |-> "none"]

ErrorText(text) == [kind |-> "text", text |-> text]

NoProc == [state |-> "none", stdout |-> "", stderr |-> ""]

\* Commands: an empty list, a list that launches, a list whose executable
\* does not exist (Popen raises).
Commands == {"empty", "run", "missing"}
Timeouts == {60, 61}

\* What a child may leave in its stdout file: nothing, plain text, or a JSON
\* object {"feedback": [{...}]}; and in its stderr file: nothing or text.
StdoutKinds == {"", "text", "json_feedback"}
StderrKinds == {"", "err"}

\* queue_task: INSERT of a pending row with created_at = time.time().
queue_task_row(command, source, timeout, t) ==
    [status |-> "pending", command |-> command, source |-> source,
     created_at |-> t, started_at |-> NoTime, completed_at |-> NoTime,
     timeout |-> timeout, exit_code |-> NoCode, stdout |-> None, stderr |-> None,
     error |-> NoError, pid |-> NoPid]

queue_task(tasks, id, command, source, timeout, t) ==
    [tasks EXCEPT ![id] = queue_task_row(command, source, timeout, t)]

StatusOf(row) == IF row = NoTask THEN "absent" ELSE row.status

WithStatus(tasks, status) ==
    {id \in DOMAIN tasks : IF tasks[id] = NoTask THEN FALSE ELSE tasks[id].status = status}

\* get_running_tasks: SELECT ... WHERE status = 'running'
get_running_tasks(tasks) == WithStatus(tasks, "running")

\* The orders in which SELECT ... WHERE status = 'pending' ORDER BY created_at
\* ASC may return the pending rows (rows created at the same time in any order).
PendingOrders(tasks) ==
    LET P == WithStatus(tasks, "pending")
        n == Cardinality(P)
    IN  {o \in [1..n -> P] :
            /\ \A i, j \in 1..n : i # j => o[i] # o[j]
            /\ \A i, j \in 1..n : i < j => tasks[o[i]].created_at <= tasks[o[j]].created_at}

Min(a, b) == IF a <= b THEN a ELSE b
Max(a, b) == IF a >= b THEN a ELSE b

get_pending_tasks_newest(order, limit) ==
    SubSeq(order, Len(order) - Min(limit, Len(order)) + 1, Len(order))

\* get_pending_tasks(limit): the first `limit` rows of the order.
get_pending_tasks(order, limit) == SubSeq(order, 1, Min(limit, Len(order)))

\* update_task_status: the arguments given (not None) are written, the other
\* columns keep their values.
update_task_status(row, upd) ==
    [f \in DOMAIN row |-> IF f \in DOMAIN upd THEN upd[f] ELSE row[f]]

\* The loop body of spawn_tasks for one pending task.
spawn_one(st, id, t) ==
    LET task == st.q[id] IN
    IF task.command = "empty"
    THEN [st EXCEPT !.q[id] = update_task_status(task,
              [status |-> "failed", completed_at |-> t, error |-> ErrorText("No command specified")])]
    ELSE IF task.command = "missing"
    THEN [st EXCEPT !.q[id] = update_task_status(task,
              [status |-> "failed", completed_at |-> t, error |-> ErrorText("No such file or directory")]),
                    !.procs[id] = [state |-> "unstarted", stdout |-> "", stderr |-> ""]]
    ELSE [st EXCEPT !.q[id] = update_task_status(task,
              [status |-> "running", started_at |-> t, pid |-> id]),
                    !.procs[id] = [state |-> "alive", stdout |-> "", stderr |-> ""],
                    !.ids = Append(@, id)]

RECURSIVE spawn_loop(_, _, _)
spawn_loop(st, pending, t) ==
    IF pending = <<>> THEN st
    ELSE CHOOSE after \in {spawn_loop(one, Tail(pending), t) :
                               one \in {spawn_one(st, Head(pending), t)}} : TRUE

spawn_tasks_no_cap(st, k, order, t) ==
    spawn_loop([st EXCEPT !.ids = <<>>], order, t)

spawn_tasks_cap_only(st, k, order, t) ==
    spawn_loop([st EXCEPT !.ids = <<>>], get_pending_tasks(order, k), t)

\* spawn_tasks(session, max_concurrent=k): st is [q, procs, ids]; the result
\* holds the tables after the call and the spawned ids it returns.
spawn_tasks(st, k, order, t) ==
    LET available_slots == Max(0, k - Cardinality(get_running_tasks(st.q))) IN
    IF available_slots = 0 THEN [st EXCEPT !.ids = <<>>]
    ELSE spawn_loop([st EXCEPT !.ids = <<>>], get_pending_tasks(order, available_slots), t)

timeout_error_default(task) == [kind |-> "timeout", seconds |-> 120]

\* f"Task timed out after {task.timeout}s"
timeout_error(task) == [kind |-> "timeout", seconds |-> task.timeout]

timed_out_never(task, t) == FALSE

\* task.started_at and (current_time - task.started_at) > task.timeout
\* (time.time() is never 0, so a set started_at is truthy)
timed_out(task, t) == task.started_at # NoTime /\ (t - task.started_at) > task.timeout

check_one_trusting(st, id, t) ==
    LET task == st.q[id]
        files == st.procs[id]
    IN  IF timed_out(task, t)
        THEN [st EXCEPT !.q[id] = update_task_status(task,
                  [status |-> "failed", completed_at |-> t, error |-> timeout_error(task),
                   stdout |-> files.stdout, stderr |-> files.stderr]),
                        !.ids = Append(@, id)]
        ELSE IF task.pid # NoPid /\ st.procs[id].state # "alive"
        THEN [st EXCEPT !.q[id] = update_task_status(task,
                  [status |-> "completed", completed_at |-> t, exit_code |-> 0,
                   stdout |-> files.stdout, stderr |-> files.stderr]),
                        !.ids = Append(@, id)]
        ELSE st

\* The loop body of check_running_tasks for one running task.
check_one(st, id, t) ==
    LET task == st.q[id]
        files == st.procs[id]
    IN  IF timed_out(task, t)
        THEN [st EXCEPT !.q[id] = update_task_status(task,
                  [status |-> "failed", completed_at |-> t, error |-> timeout_error(task),
                   stdout |-> files.stdout, stderr |-> files.stderr]),
                        !.ids = Append(@, id)]
        ELSE IF task.pid # NoPid /\ st.procs[id].state # "alive"
        THEN LET exit_code == IF files.stderr = "" THEN 0 ELSE 1 IN
             [st EXCEPT !.q[id] = update_task_status(task,
                  [status |-> IF exit_code = 0 THEN "completed" ELSE "failed",
                   completed_at |-> t, exit_code |-> exit_code,
                   stdout |-> files.stdout, stderr |-> files.stderr]),
                        !.ids = Append(@, id)]
        ELSE st

\* A set as a sequence in ascending order.
RECURSIVE SetToSeq(_)
SetToSeq(S) ==
    IF S = {} THEN <<>>
    ELSE CHOOSE seq \in {<<m>> \o SetToSeq(S \ {m}) :
                             m \in {x \in S : \A y \in S : x <= y}} : TRUE

RECURSIVE check_loop(_, _, _)
check_loop(st, running, t) ==
    IF running = <<>> THEN st
    ELSE CHOOSE after \in {check_loop(one, Tail(running), t) :
                               one \in {check_one(st, Head(running), t)}} : TRUE

\* check_running_tasks(session): the tables after the call and the ids it
\* reports as completed.
check_running_tasks(st, t) ==
    CHOOSE after \in {check_loop([st EXCEPT !.ids = <<>>], running, t) :
                          running \in {SetToSeq(get_running_tasks(st.q))}} : TRUE

NoFeedback == [none |-> TRUE]

\* str of the row's error column.
error_text(e) ==
    IF e.kind = "text" THEN e.text
    ELSE "Task timed out after " \o ToString(e.seconds) \o "s"

\* task.error or task.stderr or "Unknown error"
error_msg(task) ==
    IF task.error # NoError THEN error_text(task.error)
    ELSE IF task.stderr \notin {None, ""} THEN task.stderr
    ELSE "Unknown error"

\* text[:n]
first_chars(text, n) == SubSeq(text, 1, Min(n, Len(text)))

\* A content: its first 100 characters and the rest.
content_of(text) ==
    [head |-> first_chars(text, 100), tail |-> SubSeq(text, 101, Len(text))]

\* The items of a "feedback" list: an object with its keys, or a bare string.
FeedbackObject(content) ==
    [dict |-> TRUE, content |-> content, severity |-> "warn", category |-> "security"]
FeedbackString == [dict |-> FALSE]

NotJson == [json |-> FALSE]

\* json.loads of what the children of the model write: nothing and plain text
\* are not JSON; the rest are objects with a "feedback" list of one object,
\* of two objects, of no item, and of a bare string.
json_loads(stdout) ==
    CASE stdout = "json_feedback" -> [json |-> TRUE, feedback |-> <<FeedbackObject("finding")>>]
      [] stdout = "json_two" ->
             [json |-> TRUE, feedback |-> <<FeedbackObject("first"), FeedbackObject("second")>>]
      [] stdout = "json_empty" -> [json |-> TRUE, feedback |-> <<>>]
      [] stdout = "json_words" -> [json |-> TRUE, feedback |-> <<FeedbackString>>]
      [] OTHER -> NotJson

\* first.get(...) of an item that is not an object: AttributeError, which the
\* except clause of _parse_task_output does not name.
AttributeError == [raised |-> "AttributeError"]

\* The raw output shown when stdout holds no structured feedback.
raw_summary(task) ==
    IF task.exit_code = 0 /\ task.stdout \notin {None, ""}
    THEN [content |-> content_of("Background task completed: " \o first_chars(task.stdout, 500)),
          severity |-> Word("info"), category |-> Word("background-task"),
          task_id |-> task.source]
    ELSE IF task.exit_code # 0
    THEN [content |-> content_of("Background task failed: " \o first_chars(error_msg(task), 500)),
          severity |-> Word("warn"), category |-> Word("background-task"),
          task_id |-> task.source]
    ELSE NoFeedback

\* _parse_task_output: the feedback value of a finished task, None, or the
\* exception that leaves it.
parse_task_output(task) ==
    LET data == IF task.stdout \in {None, ""} THEN NotJson ELSE json_loads(task.stdout) IN
    IF data.json /\ data.feedback # <<>>
    THEN LET first == data.feedback[1] IN
         IF first.dict
         THEN [content |-> content_of(first.content), severity |-> Word(first.severity),
               category |-> Word(first.category), task_id |-> task.source]
         ELSE AttributeError
    ELSE raw_summary(task)

get_completed_tasks_any(tasks) == {id \in DOMAIN tasks : tasks[id] # NoTask}

\* get_completed_tasks: SELECT ... WHERE status IN ('completed', 'failed')
get_completed_tasks(tasks) == WithStatus(tasks, "completed") \cup WithStatus(tasks, "failed")

\* The orders in which ... ORDER BY completed_at DESC LIMIT 10 may return the
\* finished rows (rows finished at the same time in any order).
CompletedOrders(tasks) ==
    LET F == get_completed_tasks(tasks)
        n == Cardinality(F)
    IN  {SubSeq(o, 1, Min(10, n)) : o \in
            {o \in [1..n -> F] :
                /\ \A i, j \in 1..n : i # j => o[i] # o[j]
                /\ \A i, j \in 1..n :
                      i < j => tasks[o[i]].completed_at >= tasks[o[j]].completed_at}}

\* The loop of process_completed_tasks: each row is parsed, its feedback
\* kept, and the row deleted (mark_task_consumed); an exception leaves the
\* loop and the function with the rest of the rows in place.
RECURSIVE harvest_loop(_, _)
harvest_loop(st, done) ==
    IF done = <<>> THEN st
    ELSE LET id == Head(done)
             feedback == parse_task_output(st.q[id])
             st1 == IF feedback # NoFeedback THEN [st EXCEPT !.feedback = Append(@, feedback)]
                    ELSE st
         IN  IF feedback = AttributeError THEN [st EXCEPT !.raised = TRUE]
             ELSE CHOOSE after \in {harvest_loop(one, Tail(done)) :
                                        one \in {[st1 EXCEPT !.q[id] = NoTask]}} : TRUE

\* process_completed_tasks over the rows in the order given.
process_completed_rows(st, order) ==
    harvest_loop([q |-> st.q, feedback |-> <<>>, raised |-> FALSE], order)

\* process_completed_tasks(session): every finished row is converted and then
\* deleted (mark_task_consumed); st is [q, feedback].
process_completed_tasks(st) ==
    process_completed_rows(st, SetToSeq(get_completed_tasks(st.q)))

\* task_queue.cleanup_session: queue.db is unlinked ...
cleanup_task_session(tasks) == [id \in DOMAIN tasks |-> NoTask]

\* ... and the files of incoming/ with it.
cleanup_incoming(files) == {}

QueueEmpty ==
    /\ q = [id \in TaskIds |-> NoTask]
    /\ procs = [id \in TaskIds |-> NoProc]
    /\ nextId = 0
    /\ incoming = {}

(***************************************************************************)
(* Where a session's state is kept: feedback.py _db_path, task_queue.py    *)
(* _session_dir.  A session id is a string, here the sequence of its       *)
(* characters; both components name the session's directory by the first   *)
(* 16 characters of the id, and by "default" when the id is empty.         *)
(***************************************************************************)
default == <<"d", "e", "f", "a", "u", "l", "t">>

\* A uuid-like prefix of 16 characters.
Prefix16 ==
    <<"0", "1", "2", "3", "4", "5", "6", "7", "8", "9", "a", "b", "c", "d", "e", "f">>

\* The session ids of the model: two ids that differ after their 16th
\* character, the empty id and the id "default".
SessionIds ==
    {Prefix16 \o <<"-", "1">>, Prefix16 \o <<"-", "2">>, <<>>, default}

\* safe_id = session_id[:16] if session_id else "default"
session_dir(session_id) ==
    LET id == IF session_id = <<>> THEN default ELSE session_id IN
    SubSeq(id, 1, Min(16, Len(id)))

SessionDirs == {session_dir(s) : s \in SessionIds}

\* A session directory nobody wrote to: no feedback.db, no queue.db, no
\* incoming file.
EmptyDir == [fb |-> EmptyStore, q |-> [id \in TaskIds |-> NoTask], incoming |-> {}]

DiskIdle ==
    /\ disk = [dir \in SessionDirs |-> EmptyDir]
    /\ health = [feedback |-> "ok", queue |-> "ok"]

(***************************************************************************)
(* TaskRunner: common/runner.py, common/types.py                           *)
(***************************************************************************)
MaxBatch == 2           \* descriptors in one batch
Durations == {1, 3}     \* ticks a task body takes before it returns or raises
LongestBody == CHOOSE d \in Durations : \A e \in Durations : e <= d
MaxRunClock == MaxBatch * LongestBody   \* by then every finite body is over

NoText == [head |-> "", tail |-> ""]

\* types.Action with its defaults.
Action ==
    [block |-> FALSE, reason |-> None, end_turn |-> FALSE, add_context |-> NoText,
     permission_decision |-> None, suppress_output |-> FALSE, system_message |-> None,
     permission_decision_reason |-> None,
     file_path |-> NoFile, task_id |-> None, severity |-> NoStr, category |-> NoStr]

\* What a task body does: it runs for `dur` ticks and then returns the list
\* `out` of Actions ("ok"), raises ("raise"), or it never returns ("hang").
\* timeout 0 is timeout_seconds=None.
Bodies ==
    {[does |-> "ok", dur |-> 1, out |-> <<[Action EXCEPT !.add_context = [head |-> "warn x", tail |-> ""]]>>],
     [does |-> "ok", dur |-> 3, out |-> <<[Action EXCEPT !.block = TRUE, !.reason = "no", !.task_id = "other"],
                                         [Action EXCEPT !.add_context = [head |-> "warn y", tail |-> ""]]>>],
     [does |-> "raise", dur |-> 1, out |-> <<>>],
     [does |-> "raise", dur |-> 3, out |-> <<>>],
     [does |-> "hang", dur |-> 0, out |-> <<>>]}

DescTimeouts == {0, 2}
DefaultTimeouts == {2}
Concurrencies == {1, 6}

\* The batches: descriptor i has the id desc_id(i) (select_tasks dedupes the ids).
desc_id(i) == <<"lint", "sec", "fmt", "doc">>[i]

Batches ==
    UNION {[1..n -> [body : Bodies, timeout_seconds : DescTimeouts]] : n \in 1..MaxBatch}

\* max(1, min(cfg_conc, len(task_list)))
pool_size(b) == Max(1, Min(b.concurrency, Len(b.descs)))

\* float(desc.timeout_seconds) if it is a number > 0 else default_timeout
wait_timeout(b, i) ==
    IF b.descs[i].timeout_seconds > 0 THEN b.descs[i].timeout_seconds ELSE b.timeout_seconds

safe_call_error_blocking(id, text) == [Action EXCEPT !.block = TRUE, !.reason = text, !.task_id = id]

\* _safe_task_call, except branch: Action(block=False, reason=str(e), task_id=desc.id)
safe_call_error(id, text) == [Action EXCEPT !.reason = text, !.task_id = id]

wait_error_blocking(id, text) == [Action EXCEPT !.block = TRUE, !.reason = text, !.task_id = id]

\* run_parallel, except branch: Action(block=False, reason=str(e), task_id=desc.id)
wait_error(id, text) == [Action EXCEPT !.reason = text, !.task_id = id]

\* _safe_task_call, try branch: the returned Actions, task_id stamped if None.
stamp(out, id) ==
    [k \in 1..Len(out) |-> IF out[k].task_id = None THEN [out[k] EXCEPT !.task_id = id] ELSE out[k]]

\* What _safe_task_call returns for descriptor i once its body is over.
safe_task_call(b, i) ==
    IF b.descs[i].body.does = "raise"
    THEN <<safe_call_error(desc_id(i), "error text")>>
    ELSE stamp(b.descs[i].body.out, desc_id(i))

Tag(out, i) == [k \in 1..Len(out) |-> [by |-> i, action |-> out[k]]]

RunIdle ==
    /\ batch = [descs |-> <<>>, concurrency |-> 0, timeout_seconds |-> 0]
    /\ wk = <<>>
    /\ run = [pc |-> "idle", i |-> 0, since |-> 0, clock |-> 0, results |-> <<>>]

Running == {i \in 1..Len(wk) : wk[i].state = "running"}
Queued == {i \in 1..Len(wk) : wk[i].state = "queued"}

\* A pool thread is free and takes the oldest queued work item.
CanStart(i) ==
    /\ i \in Queued
    /\ \A j \in Queued : i <= j
    /\ Cardinality(Running) < pool_size(batch)

\* The body of work item i is over.
CanFinish(i) ==
    /\ i \in Running
    /\ batch.descs[i].body.does # "hang"
    /\ wk[i].left = 0

Waiting == run.pc = "wait"

\* fut.result(timeout) has its result ...
CanCollect == Waiting /\ wk[run.i].state = "done"

\* ... or gives up: the timeout has passed and the future is not done.
CanGiveUp ==
    /\ Waiting
    /\ wk[run.i].state # "done"
    /\ ~CanFinish(run.i)
    /\ run.clock - run.since >= wait_timeout(batch, run.i)

Advance(results) ==
    IF run.i < Len(batch.descs)
    THEN [run EXCEPT !.i = run.i + 1, !.since = run.clock, !.results = results]
    ELSE [run EXCEPT !.pc = "shutdown", !.results = results]

\* for desc in task_list: futures.append((desc, tp.submit(_safe_task_call, ...)))
Submit ==
    /\ run.pc = "submit"
    /\ wk = <<>>
    /\ wk' = [i \in 1..Len(batch.descs) |->
                [state |-> "queued", left |-> batch.descs[i].body.dur]]
    /\ run' = [run EXCEPT !.pc = "wait", !.i = 1, !.since = run.clock]
    /\ UNCHANGED <<diskVars, now, fbVars, qVars, ret, batch>>

Start(i) ==
    /\ CanStart(i)
    /\ wk' = [wk EXCEPT ![i].state = "running"]
    /\ UNCHANGED <<diskVars, now, fbVars, qVars, ret, batch, run>>

Finish(i) ==
    /\ CanFinish(i)
    /\ wk' = [wk EXCEPT ![i].state = "done"]
    /\ UNCHANGED <<diskVars, now, fbVars, qVars, ret, batch, run>>

\* results.extend(fut.result(timeout=timeout))
Collect ==
    /\ CanCollect
    /\ run' = Advance(run.results \o Tag(safe_task_call(batch, run.i), run.i))
    /\ UNCHANGED <<diskVars, now, fbVars, qVars, ret, batch, wk>>

\* except Exception as e: results.append(Action(block=False, reason=str(e), ...))
GiveUp ==
    /\ CanGiveUp
    /\ run' = Advance(Append(run.results, [by |-> run.i, action |-> wait_error(desc_id(run.i), "")]))
    /\ UNCHANGED <<diskVars, now, fbVars, qVars, ret, batch, wk>>

\* Time passes when nothing is due: the running bodies get one tick older.
RunTick ==
    /\ run.pc \in {"wait", "shutdown"}
    /\ run.clock < MaxRunClock
    /\ ~CanCollect /\ ~CanGiveUp
    /\ \A i \in 1..Len(wk) : ~CanStart(i) /\ ~CanFinish(i)
    /\ run.pc = "shutdown" => \E i \in 1..Len(wk) : wk[i].state # "done"
    /\ wk' = [i \in 1..Len(wk) |->
                IF wk[i].state = "running" /\ wk[i].left > 0
                THEN [wk[i] EXCEPT !.left = @ - 1] ELSE wk[i]]
    /\ run' = [run EXCEPT !.clock = @ + 1]
    /\ UNCHANGED <<diskVars, now, fbVars, qVars, ret, batch>>

\* Leaving `with ThreadPoolExecutor(...) as tp:` is tp.shutdown(wait=True): it
\* joins the pool's threads, so it returns once every work item is over.
RunReturn ==
    /\ run.pc = "shutdown"
    /\ \A i \in 1..Len(wk) : wk[i].state = "done"
    /\ run' = [run EXCEPT !.pc = "returned"]
    /\ UNCHANGED <<diskVars, now, fbVars, qVars, ret, batch, wk>>

RunInit ==
    /\ now = 0
    /\ fb = EmptyStore
    /\ prev = [i \in IssueIds |-> NoPrev]
    /\ ret = [op |-> "init"]
    /\ QueueEmpty
    /\ DiskIdle
    /\ cap = 2
    /\ \E descs \in Batches, c \in Concurrencies, d \in DefaultTimeouts :
          batch = [descs |-> descs, concurrency |-> c, timeout_seconds |-> d]
    /\ wk = <<>>
    /\ run = [pc |-> "submit", i |-> 0, since |-> 0, clock |-> 0, results |-> <<>>]

RunNext ==
    \/ Submit
    \/ \E i \in 1..MaxBatch + 1 : Start(i)
    \/ \E i \in 1..MaxBatch + 1 : Finish(i)
    \/ Collect
    \/ GiveUp
    \/ RunTick
    \/ RunReturn

SpecRunner == RunInit /\ [][RunNext]_vars

\* The outcomes descriptor i contributed to the result, in order.
RECURSIVE OutcomesOf(_, _)
OutcomesOf(results, i) ==
    IF results = <<>> THEN <<>>
    ELSE IF Head(results).by = i
         THEN <<Head(results).action>> \o OutcomesOf(Tail(results), i)
         ELSE OutcomesOf(Tail(results), i)

\* Descriptor i got a timeout warning: the runner stopped waiting for it.
Abandoned(i) ==
    \E k \in 1..Len(run.results) :
        run.results[k].by = i /\ run.results[k].action = wait_error(desc_id(i), "")

\* C6: a task that does not return within its timeout T gets one non-blocking
\* warning, and run returns to the caller without waiting for the abandoned
\* task: once every future has been waited for, run can return, also while an
\* abandoned task is still running.
C6_ReturnsWithoutWaiting ==
    run.pc = "shutdown" => ENABLED RunReturn

TickSteps == {150, 301}

Tick(d, max) ==
    /\ now + d <= max
    /\ now' = now + d
    /\ ret' = [op |-> "tick"]
    /\ UNCHANGED <<diskVars, fbVars, qVars, runVars>>

\* record_feedback(content, task, file, strategy=...) on its own.
Record(content, task, file, strategy) ==
    LET id == issue_id(task, file, content) IN
    /\ Capped(cleanup_expired(fb, now), id)
    /\ fb' = record_store(fb, content, task, file, None, None, strategy, now)
    /\ ret' = [op |-> "record", issue |-> id, strategy |-> strategy,
               item |-> record_item(fb, content, task, file, None, None, strategy, now)]
    /\ UNCHANGED <<diskVars, now, prev, qVars, runVars>>

\* The dedup pass of one advisory: record with show_once, should_show_feedback
\* on the returned item, mark_shown when it is to be shown.
ShowOncePass(content, task, file) ==
    LET id == issue_id(task, file, content)
        item == record_item(fb, content, task, file, None, None, "show_once", now)
        after == record_store(fb, content, task, file, None, None, "show_once", now)
        show == should_show_feedback(item)
    IN  /\ Capped(cleanup_expired(fb, now), id)
        /\ fb' = IF show THEN mark_shown(after, item.issue_id) ELSE after
        /\ ret' = [op |-> "show_once_pass", issue |-> id, item |-> item, show |-> show,
                   old |-> fb[id], before |-> prev[id]]
        /\ prev' = [prev EXCEPT ![id] = [show |-> show, first_seen |-> item.first_seen]]
        /\ UNCHANGED <<diskVars, now, qVars, runVars>>

MarkShown(id) ==
    /\ Capped(fb, id)
    /\ fb[id] # NoRow
    /\ fb' = mark_shown(fb, id)
    /\ ret' = [op |-> "mark_shown", issue |-> id]
    /\ UNCHANGED <<diskVars, now, prev, qVars, runVars>>

CleanupSession ==
    /\ \E i \in IssueIds : fb[i] # NoRow
    /\ fb' = cleanup_session(fb)
    /\ prev' = [i \in IssueIds |-> NoPrev]
    /\ ret' = [op |-> "cleanup_session"]
    /\ UNCHANGED <<diskVars, now, qVars, runVars>>

\* The store's inputs of the feedback specification: one task, two files that
\* share a base name, the contents.
FbInit ==
    /\ now = 0
    /\ fb = EmptyStore
    /\ prev = [i \in IssueIds |-> NoPrev]
    /\ ret = [op |-> "init"]
    /\ QueueEmpty
    /\ DiskIdle
    /\ cap = 2
    /\ RunIdle

\* The advisories the feedback specification records: two texts that share
\* their first 100 characters, and the first of them for a file.
FbInputs ==
    {<<[head |-> "warn x", tail |-> ""], NoFile>>,
     <<[head |-> "warn x", tail |-> "more"], NoFile>>}

FbFileInput == <<[head |-> "warn x", tail |-> ""], [dir |-> "a", name |-> "f.py"]>>

FbNext ==
    \/ \E d \in TickSteps : Tick(d, MaxTime)
    \/ \E in \in FbInputs, s \in {"show_once", "always", "defer"} :
         Record(in[1], "lint", in[2], s)
    \/ \E in \in FbInputs \cup {FbFileInput} : ShowOncePass(in[1], "lint", in[2])
    \/ \E in \in FbInputs : MarkShown(issue_id("lint", in[2], in[1]))
    \/ CleanupSession

SpecFeedback == FbInit /\ [][FbNext]_vars

\* A row that record_feedback at time t finds still there after the purge.
Live(row, t) ==
    IF row = NoRow THEN FALSE ELSE row.last_seen >= t - DEFAULT_DEDUP_WINDOW

\* C2: with strategy show_once, record -> shouldShow -> markShown (when shown)
\* on an issue that has no row, or whose row is older than the TTL, answers
\* true with a fresh occurrence_count of 1 and times_shown 0 (the row is
\* purged before the record); applied again to the same show_once row within
\* the TTL window of its last_seen it answers false.
C2_ShowOnceThenSuppressed ==
    ret.op = "show_once_pass" =>
        /\ (~Live(ret.old, now) =>
                /\ ret.show
                /\ ret.item.occurrence_count = 1
                /\ ret.item.times_shown = 0
                /\ ret.item.first_seen = now)
        /\ ((/\ Live(ret.old, now)
             /\ ret.old.strategy = "show_once"
             /\ ret.before # NoPrev
             /\ ret.before.first_seen = ret.old.first_seen)
                => (~ret.show /\ ret.item.occurrence_count = ret.old.occurrence_count + 1))

\* A pass that was answered true before and is suppressed within the window.
C2_Reach_Suppressed ==
    /\ ret.op = "show_once_pass"
    /\ Live(ret.old, now)
    /\ ret.old.strategy = "show_once"
    /\ ret.before # NoPrev
    /\ ret.before.show
    /\ ~ret.show

\* C2 witness: a pass on a row that was shown, then suppressed, and has expired
\* since: purged, recorded afresh and shown again.
C2_Witness ==
    /\ ret.op = "show_once_pass"
    /\ ret.old # NoRow
    /\ ~Live(ret.old, now)
    /\ ret.old.times_shown > 0
    /\ ret.old.occurrence_count > 1
    /\ ret.before # NoPrev
    /\ ~ret.before.show
    /\ ret.show
    /\ ret.item.occurrence_count = 1

(***************************************************************************)
(* Operations of the BackgroundQueue.                                      *)
(***************************************************************************)
QTickSteps == {61}

Enqueue(command, timeout) ==
    /\ nextId < MaxTasks
    /\ nextId' = nextId + 1
    /\ q' = queue_task(q, nextId + 1, command, "cli", timeout, now)
    /\ ret' = [op |-> "enqueue", id |-> nextId + 1]
    /\ UNCHANGED <<diskVars, now, fbVars, procs, cap, incoming, runVars>>

Spawn ==
    \E order \in PendingOrders(q) :
        LET st == spawn_tasks([q |-> q, procs |-> procs, ids |-> <<>>], cap, order, now) IN
        /\ q' = st.q
        /\ procs' = st.procs
        /\ ret' = [op |-> "spawn", ids |-> st.ids]
        /\ UNCHANGED <<diskVars, now, fbVars, nextId, cap, incoming, runVars>>

\* What the children of the model do: write part of their output and go on,
\* or write their output and exit.
ProcRuns ==
    {<<"text", "", FALSE>>, <<"", "", TRUE>>,
     <<"json_feedback", "", TRUE>>, <<"text", "err", TRUE>>}

\* A running child appends to its output files and may exit.
ProcStep(id, out, err, exits) ==
    /\ procs[id].state = "alive"
    /\ procs[id].stdout \in {"", out}
    /\ procs[id].stderr \in {"", err}
    /\ <<out, err, exits>> # <<procs[id].stdout, procs[id].stderr, FALSE>>
    /\ procs' = [procs EXCEPT ![id] = [state |-> IF exits THEN "gone" ELSE "alive",
                                       stdout |-> out, stderr |-> err]]
    /\ ret' = [op |-> "proc", id |-> id]
    /\ UNCHANGED <<diskVars, now, fbVars, q, nextId, cap, incoming, runVars>>

Poll ==
    LET st == check_running_tasks([q |-> q, procs |-> procs, ids |-> <<>>], now) IN
    /\ get_running_tasks(q) # {}
    /\ q' = st.q
    /\ ret' = [op |-> "poll", ids |-> st.ids]
    /\ UNCHANGED <<diskVars, now, fbVars, procs, nextId, cap, incoming, runVars>>

Harvest ==
    \E order \in CompletedOrders(q) :
        LET st == process_completed_rows([q |-> q, feedback |-> <<>>], order) IN
        /\ get_completed_tasks(q) # {}
        /\ q' = st.q
        /\ ret' = [op |-> "harvest", rows |-> order, raised |-> st.raised,
                   feedback |-> IF st.raised THEN <<>> ELSE st.feedback]
    /\ UNCHANGED <<diskVars, now, fbVars, procs, nextId, cap, incoming, runVars>>

QCleanup ==
    /\ \E id \in TaskIds : q[id] # NoTask
    /\ q' = cleanup_task_session(q)
    /\ incoming' = cleanup_incoming(incoming)
    /\ ret' = [op |-> "cleanup_task_session"]
    /\ UNCHANGED <<diskVars, now, fbVars, procs, nextId, cap, runVars>>

\* The tasks the queue specification enqueues.
QInputs == {<<"run", 60>>, <<"run", 61>>, <<"empty", 61>>, <<"missing", 61>>}

\* max_concurrent: 1, and the 2 that router.main passes.
Caps == {1, 2}

QInit ==
    /\ now = 0
    /\ fb = EmptyStore
    /\ prev = [i \in IssueIds |-> NoPrev]
    /\ ret = [op |-> "init"]
    /\ QueueEmpty
    /\ DiskIdle
    /\ cap \in Caps
    /\ RunIdle

QNext ==
    \/ \E d \in QTickSteps : Tick(d, QMaxTime)
    \/ \E in \in QInputs : Enqueue(in[1], in[2])
    \/ Spawn
    \/ \E id \in TaskIds, r \in ProcRuns : ProcStep(id, r[1], r[2], r[3])
    \/ Poll
    \/ Harvest
    \/ QCleanup

SpecQueue == QInit /\ [][QNext]_vars

FreeSlots(tasks, k) == Max(0, k - Cardinality(WithStatus(tasks, "running")))

\* The number of rows a step moves to running.
NewlyRunning == Cardinality({id \in TaskIds : StatusOf(q[id]) # "running" /\ StatusOf(q'[id]) = "running"})

RunningWithinCap == Cardinality(WithStatus(q, "running")) <= cap

\* C3 as claimed: the number of running rows never exceeds k, and a spawn call
\* made with f free slots and p pending tasks moves exactly min(f, p) of them
\* to running.
C3_SpawnMovesExactlyMin ==
    [](RunningWithinCap)
    /\ [][ret'.op = "spawn" =>
            NewlyRunning = Min(FreeSlots(q, cap), Cardinality(WithStatus(q, "pending")))]_vars

\* What a spawn step does to the pending rows: it selects min(f, p) of them,
\* none created later than a pending row it leaves; the selected rows with a
\* command that launches become running, the other selected rows become
\* failed, and the rows not selected stay as they are.
SpawnSelects ==
    \E S \in SUBSET WithStatus(q, "pending") :
        /\ Cardinality(S) = Min(FreeSlots(q, cap), Cardinality(WithStatus(q, "pending")))
        /\ \A s \in S, u \in WithStatus(q, "pending") \ S : q[s].created_at <= q[u].created_at
        /\ \A s \in S : StatusOf(q'[s]) = IF q[s].command = "run" THEN "running" ELSE "failed"
        /\ \A u \in TaskIds \ S : q'[u] = q[u]
        /\ NewlyRunning = Cardinality({s \in S : q[s].command = "run"})

\* A pending row does not start while no slot is free.
PendingWaits ==
    \A id \in TaskIds :
        (StatusOf(q[id]) = "pending" /\ FreeSlots(q, cap) = 0) => StatusOf(q'[id]) # "running"

\* C3 (amended): after any sequence of enqueue, spawn(k), poll and harvest
\* calls the number of running rows never exceeds k; a spawn call made with f
\* free slots and p pending tasks selects the min(f, p) oldest pending tasks and
\* moves to running those of them that have a command that launches (the
\* others of them are marked failed), so at most min(f, p); a pending task
\* stays pending while no slot is free.
C3_SpawnWithinCap ==
    [](RunningWithinCap)
    /\ [][(ret'.op = "spawn" => SpawnSelects) /\ PendingWaits]_vars

\* C3 witness: spawn(max_concurrent=1) with two pending tasks that launch has
\* moved exactly one to running; the other is still pending.
C3_Witness ==
    /\ ret.op = "spawn"
    /\ cap = 1
    /\ Len(ret.ids) = 1
    /\ Cardinality(WithStatus(q, "running")) = 1
    /\ \E id \in WithStatus(q, "pending") : q[id].command = "run"

\* The changes of status a row may go through; pending and running rows
\* disappear only with the whole queue (cleanup_session).
Lifecycle(from, to, op) ==
    \/ from = to
    \/ from = "absent" /\ to = "pending"
    \/ from = "pending" /\ to \in {"running", "failed"}
    \/ from = "running" /\ to \in {"completed", "failed"}
    \/ from \in {"completed", "failed"} /\ to = "absent"
    \/ from \in {"pending", "running"} /\ to = "absent" /\ op = "cleanup_task_session"

\* C4: every row follows pending -> running -> completed/failed -> consumed:
\* it is created pending, its status only changes pending->running,
\* pending->failed, running->completed or running->failed, a completed or
\* failed row never changes status again and is only deleted, and harvest
\* deletes only completed or failed rows.
C4_Lifecycle ==
    [][\A id \in TaskIds :
          /\ Lifecycle(StatusOf(q[id]), StatusOf(q'[id]), ret'.op)
          /\ (StatusOf(q[id]) \in {"completed", "failed"} => q'[id] \in {q[id], NoTask})
          /\ (ret'.op = "harvest" /\ q[id] # NoTask /\ q'[id] = NoTask
                => StatusOf(q[id]) \in {"completed", "failed"})]_vars

\* C4 witness: harvest has consumed a finished row while another row is still
\* pending or running.
C4_Witness ==
    /\ ret.op = "harvest"
    /\ ret.feedback # <<>>
    /\ \E id \in TaskIds : id <= nextId /\ q[id] = NoTask
    /\ \E id \in TaskIds : StatusOf(q[id]) \in {"pending", "running"}

\* C5: every running task whose elapsed time since started_at exceeds its
\* timeout is, by the next poll, failed with the error 'Task timed out after
\* <timeout>s' naming its own timeout, holds the stdout/stderr captured so
\* far, and is reported among the completed ids.
C5_PollTimesOut ==
    [][ret'.op = "poll" =>
          \A id \in WithStatus(q, "running") :
              (now - q[id].started_at > q[id].timeout) =>
                  /\ q'[id].status = "failed"
                  /\ q'[id].error = [kind |-> "timeout", seconds |-> q[id].timeout]
                  /\ q'[id].stdout = procs[id].stdout
                  /\ q'[id].stderr = procs[id].stderr
                  /\ \E i \in 1..Len(ret'.ids) : ret'.ids[i] = id]_vars

\* C5 witness: a poll has failed a task on its timeout, with the partial
\* output of its still running child.
C5_Witness ==
    /\ ret.op = "poll"
    /\ \E i \in 1..Len(ret.ids) :
          /\ q[ret.ids[i]].error = [kind |-> "timeout", seconds |-> 60]
          /\ q[ret.ids[i]].stdout = "text"
          /\ procs[ret.ids[i]].state = "alive"

(***************************************************************************)
(* DecisionEngine: router.main                                             *)
(***************************************************************************)
MaxResults == 1         \* outcomes of the lists drawn from the whole pool
MaxImports == 1         \* task files dropped into incoming/ in one behaviour

max_lines == 50

Events ==
    {"PreToolUse", "PostToolUse", "UserPromptSubmit", "Notification", "Stop",
     "SubagentStop", "PreCompact", "SessionStart", "SessionEnd", "Unknown"}

\* A block_on entry as written in the config: optional blanks around it, one
\* text, or two texts with a colon between them.
Rule(pad, colon, left, right) == [pad |-> pad, colon |-> colon, left |-> left, right |-> right]

\* str.lower()
lower_identity(str) == str

lower(str) == [str EXCEPT !.upper = FALSE]

\* str(rule).lower().strip()
normalize(rule) ==
    [rule EXCEPT !.pad = FALSE, !.left = lower(rule.left), !.right = lower(rule.right)]

\* One round of the loop of _matches_policy over block_on.
matches_rule(rule, sev, cat) ==
    LET s == normalize(rule) IN
    IF ~s.colon /\ s.left.word = "" THEN FALSE
    ELSE IF s.colon
    THEN (s.left.word = "" \/ s.left = cat) /\ (s.right.word = "" \/ s.right = sev)
    ELSE IF s.left.word \in {"info", "warn", "error"} THEN sev = s.left
    ELSE s.left = cat

matches_policy_always(a, block_on) == TRUE

\* _matches_policy(a)
matches_policy(a, block_on) ==
    \E k \in 1..Len(block_on) :
        matches_rule(block_on[k], lower(a.severity), lower(a.category))

\* Action(add_context=..., severity=..., category=..., task_id=...) of one
\* harvested feedback value.
feedback_action(feedback) ==
    [Action EXCEPT !.add_context = feedback.content, !.severity = feedback.severity,
                   !.category = feedback.category, !.task_id = feedback.task_id]

IsBlock(a, block_on) == a.block \/ matches_policy(a, block_on)

\* blocks = [a for a in results if a.block or _matches_policy(a)]
blocks_of(results, block_on) == SelectSeq(results, LAMBDA a : IsBlock(a, block_on))

\* adds = [a for a in results if a.add_context and not a.block and not _matches_policy(a)]
adds_of(results, block_on) ==
    SelectSeq(results, LAMBDA a : a.add_context # NoText /\ ~IsBlock(a, block_on))

pre_decisions_of(results) == SelectSeq(results, LAMBDA a : a.permission_decision # None)
enders_of(results) == SelectSeq(results, LAMBDA a : a.end_turn)

\* The PostToolUse loop over adds: st is [store, kept].
RECURSIVE dedup_adds(_, _, _)
dedup_adds(st, adds, t) ==
    IF adds = <<>> THEN st
    ELSE LET a == Head(adds)
             task == IF a.task_id = None THEN "unknown" ELSE a.task_id
             item == record_item(st.store, a.add_context, task, a.file_path,
                                 a.severity, a.category, "show_once", t)
             recorded == record_store(st.store, a.add_context, task, a.file_path,
                                      a.severity, a.category, "show_once", t)
         IN  dedup_adds(IF should_show_feedback(item)
                        THEN [store |-> mark_shown(recorded, item.issue_id),
                              kept |-> Append(st.kept, a)]
                        ELSE [store |-> recorded, kept |-> st.kept],
                        Tail(adds), t)

\* A text is the sequence of its lines: text.splitlines().  A content is
\* one line, or the number of lines its `lines` says, each with its number.
text_of(content) ==
    IF "lines" \in DOMAIN content
    THEN [i \in 1..content.lines |-> content.head \o " " \o ToString(i)]
    ELSE <<content.head \o content.tail>>

RECURSIVE join(_, _)
join(texts, sep) ==
    IF texts = <<>> THEN <<>>
    ELSE IF Len(texts) = 1 THEN Head(texts)
    ELSE Head(texts) \o sep \o join(Tail(texts), sep)

truncate_context_late(lines) ==
    IF Len(lines) <= max_lines + 1 THEN lines
    ELSE SubSeq(lines, 1, max_lines) \o
         <<"", "... (" \o ToString(Len(lines) - max_lines) \o " more lines truncated for brevity)">>

\* _truncate_context(text, max_lines=50)
truncate_context(lines) ==
    IF Len(lines) <= max_lines THEN lines
    ELSE SubSeq(lines, 1, max_lines) \o
         <<"", "... (" \o ToString(Len(lines) - max_lines) \o " more lines truncated for brevity)">>

\* _merged_context()
merged_context(adds) ==
    truncate_context(join([k \in 1..Len(adds) |-> text_of(adds[k].add_context)], <<>>))

RECURSIVE join_ids(_)
join_ids(ids) ==
    IF ids = <<>> THEN ""
    ELSE IF Len(ids) = 1 THEN Head(ids)
    ELSE Head(ids) \o ", " \o join_ids(Tail(ids))

\* _reason_from_blocks(event_name)
reason_from_blocks(blocks, event_name) ==
    LET worded == SelectSeq(blocks, LAMBDA a : a.reason \notin {None, ""} \/ a.add_context # NoText)
        texts == [k \in 1..Len(worded) |->
                    IF worded[k].reason \notin {None, ""} THEN <<worded[k].reason>>
                    ELSE text_of(worded[k].add_context)]
        named == SelectSeq(blocks, LAMBDA a : a.task_id # None)
        ids == [k \in 1..Len(named) |-> named[k].task_id]
    IN  IF texts # <<>>
        THEN IF event_name = "PostToolUse"
             THEN <<"Issues found:">> \o truncate_context(join(texts, <<"">>))
             ELSE truncate_context(join(texts, <<"">>))
        ELSE IF ids # <<>>
        THEN IF event_name = "PostToolUse"
             THEN <<"Issues found in: " \o join_ids(ids)>>
             ELSE <<"Blocked by: " \o join_ids(ids)>>
        ELSE IF event_name = "PostToolUse" THEN <<"Issues found">> ELSE <<"Blocked">>

\* The JSON object main() prints; a key that is not there has the value of
\* NoResponse.
NoOutput == [hookEventName |-> None, additionalContext |-> <<>>,
             permissionDecision |-> None, permissionDecisionReason |-> <<>>]

NoResponse ==
    [continue |-> None, decision |-> None, reason |-> <<>>, stopReason |-> <<>>,
     systemMessage |-> <<>>, suppressOutput |-> FALSE, hookSpecificOutput |-> NoOutput]

Continue == [NoResponse EXCEPT !.continue = "true"]

\* {"continue": True} and, when there is context, the additionalContext.
with_context(event, ctx) ==
    IF ctx = <<>> THEN Continue
    ELSE [Continue EXCEPT !.hookSpecificOutput =
            [NoOutput EXCEPT !.hookEventName = event, !.additionalContext = ctx]]

\* next((a.reason for a in enders if a.reason), "Requested stop")
stop_reason(enders) ==
    LET worded == SelectSeq(enders, LAMBDA a : a.reason \notin {None, ""}) IN
    IF worded = <<>> THEN <<"Requested stop">> ELSE <<Head(worded).reason>>

stopped(reason) == [NoResponse EXCEPT !.continue = "false", !.stopReason = reason]

map_event_decisions_first(event, blocks, adds, pre_decisions, enders) ==
    CASE event = "PreToolUse" ->
            IF blocks # <<>> /\ pre_decisions = <<>> /\ enders = <<>>
            THEN [Continue EXCEPT !.hookSpecificOutput =
                    [NoOutput EXCEPT !.hookEventName = "PreToolUse",
                                     !.permissionDecision = "deny",
                                     !.permissionDecisionReason = reason_from_blocks(blocks, event)]]
            ELSE IF enders # <<>> THEN stopped(stop_reason(enders))
            ELSE IF pre_decisions # <<>>
            THEN [Continue EXCEPT !.hookSpecificOutput =
                    [NoOutput EXCEPT !.hookEventName = "PreToolUse",
                                     !.permissionDecision = Head(pre_decisions).permission_decision,
                                     !.permissionDecisionReason =
                                        IF Head(pre_decisions).permission_decision_reason = None
                                        THEN <<>>
                                        ELSE <<Head(pre_decisions).permission_decision_reason>>]]
            ELSE IF merged_context(adds) # <<>>
            THEN [Continue EXCEPT !.hookSpecificOutput =
                    [NoOutput EXCEPT !.hookEventName = "PreToolUse",
                                     !.permissionDecision = "allow",
                                     !.permissionDecisionReason = merged_context(adds)]]
            ELSE Continue
      [] event \in {"PostToolUse", "UserPromptSubmit", "Stop", "SubagentStop", "PreCompact"} ->
            IF blocks # <<>>
            THEN [NoResponse EXCEPT !.decision = "block",
                                    !.reason = reason_from_blocks(blocks, event)]
            ELSE with_context(event, merged_context(adds))
      [] event = "SessionStart" ->
            IF blocks # <<>> THEN stopped(reason_from_blocks(blocks, event))
            ELSE IF enders # <<>> THEN stopped(stop_reason(enders))
            ELSE with_context(event, merged_context(adds))
      [] event \in {"SessionEnd", "Notification"} ->
            with_context(event, merged_context(adds))
      [] OTHER -> Continue

\* The event switch of main().
map_event(event, blocks, adds, pre_decisions, enders) ==
    CASE event = "PreToolUse" ->
            IF blocks # <<>>
            THEN [Continue EXCEPT !.hookSpecificOutput =
                    [NoOutput EXCEPT !.hookEventName = "PreToolUse",
                                     !.permissionDecision = "deny",
                                     !.permissionDecisionReason = reason_from_blocks(blocks, event)]]
            ELSE IF enders # <<>> THEN stopped(stop_reason(enders))
            ELSE IF pre_decisions # <<>>
            THEN [Continue EXCEPT !.hookSpecificOutput =
                    [NoOutput EXCEPT !.hookEventName = "PreToolUse",
                                     !.permissionDecision = Head(pre_decisions).permission_decision,
                                     !.permissionDecisionReason =
                                        IF Head(pre_decisions).permission_decision_reason = None
                                        THEN <<>>
                                        ELSE <<Head(pre_decisions).permission_decision_reason>>]]
            ELSE IF merged_context(adds) # <<>>
            THEN [Continue EXCEPT !.hookSpecificOutput =
                    [NoOutput EXCEPT !.hookEventName = "PreToolUse",
                                     !.permissionDecision = "allow",
                                     !.permissionDecisionReason = merged_context(adds)]]
            ELSE Continue
      [] event \in {"PostToolUse", "UserPromptSubmit", "Stop", "SubagentStop", "PreCompact"} ->
            IF blocks # <<>>
            THEN [NoResponse EXCEPT !.decision = "block",
                                    !.reason = reason_from_blocks(blocks, event)]
            ELSE with_context(event, merged_context(adds))
      [] event = "SessionStart" ->
            IF blocks # <<>> THEN stopped(reason_from_blocks(blocks, event))
            ELSE IF enders # <<>> THEN stopped(stop_reason(enders))
            ELSE with_context(event, merged_context(adds))
      [] event \in {"SessionEnd", "Notification"} ->
            with_context(event, merged_context(adds))
      [] OTHER -> Continue

\* suppressOutput and systemMessage, attached when present.
attach_common(response, results) ==
    LET said == SelectSeq(results, LAMBDA a : a.system_message \notin {None, ""}) IN
    [response EXCEPT
        !.suppressOutput = \E k \in 1..Len(results) : results[k].suppress_output,
        !.systemMessage = [k \in 1..Len(said) |-> said[k].system_message]]

\* The response to SessionStart in a project with a reserved folder, and the
\* response when load_config raises.
refused(event, msg) ==
    [NoResponse EXCEPT !.continue = "false", !.stopReason = <<msg>>, !.systemMessage = <<msg>>,
                       !.hookSpecificOutput =
                          [NoOutput EXCEPT !.hookEventName = event, !.additionalContext = <<msg>>]]

\* The files of incoming/: "task" holds a JSON object with a command list,
\* "no_command" an object without one, "not_object" a JSON list, "garbage"
\* does not parse.
Unreadable == {"garbage", "not_object"}

\* import_from_incoming without the unlink that follows queue_task.
import_without_unlink(st, t) ==
    [q |-> IF "task" \in st.incoming
           THEN queue_task(st.q, st.nextId + 1, "run", "external-json", 60, t)
           ELSE st.q,
     incoming |-> st.incoming \ {"no_command"},
     nextId |-> IF "task" \in st.incoming THEN st.nextId + 1 ELSE st.nextId]

\* import_from_incoming: st is [q, incoming, nextId].  A file with a command
\* list is queued and removed, an object without one is removed, a file that
\* does not parse or holds no object raises inside the try and stays.
import_from_incoming(st, t) ==
    [q |-> IF "task" \in st.incoming
           THEN queue_task(st.q, st.nextId + 1, "run", "external-json", 60, t)
           ELSE st.q,
     incoming |-> st.incoming \cap Unreadable,
     nextId |-> IF "task" \in st.incoming THEN st.nextId + 1 ELSE st.nextId]

\* import_from_incoming when queue.db does not open: queue_task raises
\* inside the try, so a file with a command list stays as well.
import_unqueued(files) == files \ {"no_command"}

\* task_id=a.task_id or "unknown", and the issue the advisory is recorded under.
issue_of(a) ==
    issue_id(IF a.task_id = None THEN "unknown" ELSE a.task_id, a.file_path, a.add_context)

IssuesOf(actions) == {issue_of(actions[k]) : k \in 1..Len(actions)}

(***************************************************************************)
(* One invocation of main() with a hook payload on stdin.                  *)
(***************************************************************************)
NoLoad == [none |-> TRUE]

\* print(json.dumps(payload_out)): the one object the invocation writes.
\* `load` is what load_config was given and what it returned, for the
\* invocations whose configuration the model resolves.
Respond(load, stage, event, block_on, results, included, response) ==
    ret' = [op |-> "invoke", stage |-> stage, event |-> event, block_on |-> block_on,
            results |-> results, included |-> included, response |-> response,
            written |-> <<response>>, load |-> load]

\* An exception leaves main(): the traceback goes to stderr, nothing is
\* written to stdout.
Abort(load, event, block_on, results) ==
    ret' = [op |-> "invoke", stage |-> "aborted", event |-> event, block_on |-> block_on,
            results |-> results, included |-> {}, response |-> NoResponse,
            written |-> <<>>, load |-> load]

Answer(stage, event, block_on, results, included, response) ==
    Respond(NoLoad, stage, event, block_on, results, included, response)

\* SessionStart in a project whose root has a folder named as the package.
InvokeReserved(event) ==
    /\ event = "SessionStart"
    /\ Answer("reserved", event, <<>>, <<>>, {},
              refused(event, "Reserved package namespace found at project root"))
    /\ UNCHANGED <<diskVars, now, fbVars, qVars, runVars>>

\* load_config raises.
InvokeNoConfig(event) ==
    /\ Answer("config", event, <<>>, <<>>, {}, refused(event, "xenohooks: no config"))
    /\ UNCHANGED <<diskVars, now, fbVars, qVars, runVars>>

\* select_tasks returns no task for the event.
InvokeNoTasks(event) ==
    /\ Answer("no_tasks", event, <<>>, <<>>, {}, Continue)
    /\ UNCHANGED <<diskVars, now, fbVars, qVars, runVars>>

Opens(file) == health[file] = "ok"

\* Tasks are selected and run_parallel returns `results`.  (Each value of the
\* handler is bound once, in the order main() computes them.)  A database
\* that does not open raises sqlite3.Error at the first call that connects:
\* spawn_tasks for queue.db, record_feedback for the feedback database; an
\* exception that leaves process_completed_tasks leaves main() as well.
RunTasks(load, event, block_on, results) ==
    IF ~Opens("queue")
    THEN /\ incoming' = import_unqueued(incoming)
         /\ Abort(load, event, block_on, results)
         /\ UNCHANGED <<diskVars, now, fbVars, q, procs, nextId, cap, runVars>>
    ELSE
    \E imported \in {import_from_incoming([q |-> q, incoming |-> incoming, nextId |-> nextId], now)} :
    \E order \in PendingOrders(imported.q) :
    \E spawned \in {spawn_tasks([q |-> imported.q, procs |-> procs, ids |-> <<>>], 2, order, now)} :
    \E checked \in {check_running_tasks(spawned, now)} :
    \E finished \in CompletedOrders(checked.q) :
    \E harvested \in {process_completed_rows([q |-> checked.q, feedback |-> <<>>], finished)} :
    \E all \in {results \o [k \in 1..Len(harvested.feedback) |->
                              feedback_action(harvested.feedback[k])]} :
    \E blocks \in {blocks_of(all, block_on)} :
    IF harvested.raised
    THEN /\ q' = harvested.q
         /\ incoming' = imported.incoming
         /\ procs' = checked.procs
         /\ nextId' = imported.nextId
         /\ Abort(load, event, block_on, results)
         /\ UNCHANGED <<diskVars, now, fbVars, cap, runVars>>
    ELSE
    IF event = "PostToolUse" /\ adds_of(all, block_on) # <<>> /\ ~Opens("feedback")
    THEN /\ q' = harvested.q
         /\ incoming' = imported.incoming
         /\ procs' = checked.procs
         /\ nextId' = imported.nextId
         /\ Abort(load, event, block_on, all)
         /\ UNCHANGED <<diskVars, now, fbVars, cap, runVars>>
    ELSE
    \E deduped \in {IF event = "PostToolUse"
                    THEN dedup_adds([store |-> fb, kept |-> <<>>], adds_of(all, block_on), now)
                    ELSE [store |-> fb, kept |-> adds_of(all, block_on)]} :
    \E included \in {IF event = "PostToolUse" /\ blocks = <<>>
                     THEN IssuesOf(deduped.kept) ELSE {}} :
        /\ \A i \in DOMAIN deduped.store :
              IF deduped.store[i] = NoRow THEN TRUE
              ELSE deduped.store[i].occurrence_count <= MaxCount
        /\ fb' = IF event = "SessionEnd" THEN cleanup_session(deduped.store)
                 ELSE deduped.store
        /\ q' = IF event = "SessionEnd" THEN cleanup_task_session(harvested.q)
                ELSE harvested.q
        /\ incoming' = IF event = "SessionEnd" THEN cleanup_incoming(imported.incoming)
                       ELSE imported.incoming
        /\ procs' = checked.procs
        /\ nextId' = imported.nextId
        /\ prev' = IF event = "SessionEnd" THEN <<>>
                   ELSE [i \in DOMAIN prev \cup included |->
                            IF i \in included THEN now ELSE prev[i]]
        /\ health' = IF event = "SessionEnd" THEN [health EXCEPT !.feedback = "ok"]
                     ELSE health
        /\ Respond(load, "mapped", event, block_on, all, included,
                   attach_common(map_event(event, blocks, deduped.kept,
                                           pre_decisions_of(all), enders_of(all)), all))
        /\ UNCHANGED <<disk, now, cap, runVars>>

InvokeTasks(event, block_on, results) == RunTasks(NoLoad, event, block_on, results)

\* An external tool leaves a JSON file in incoming/.
Drop(kind) ==
    /\ kind \notin incoming
    /\ kind = "task" => nextId < MaxImports
    /\ incoming' = incoming \cup {kind}
    /\ ret' = [op |-> "drop", kind |-> kind]
    /\ UNCHANGED <<diskVars, now, fbVars, q, procs, nextId, cap, runVars>>

\* The outcomes run_parallel may return: advisories, a block, a turn-end
\* request, permission pre-decisions, and the warning synthesized for a task
\* that raised, timed out or could not be imported.
advisory_x == [Action EXCEPT !.add_context = [head |-> "warn x", tail |-> ""], !.task_id = "lint"]
advisory_sec ==
    [Action EXCEPT !.add_context = [head |-> "warn y", tail |-> "more"], !.task_id = "sec",
                   !.file_path = [dir |-> "a", name |-> "f.py"],
                   !.severity = Word("error"), !.category = Upper("security")]
blocker == [Action EXCEPT !.block = TRUE, !.reason = "no", !.task_id = "sec"]
ender == [Action EXCEPT !.end_turn = TRUE, !.task_id = "lint"]
denier == [Action EXCEPT !.permission_decision = "deny",
                         !.permission_decision_reason = "unsafe", !.task_id = "sec"]
allower == [Action EXCEPT !.permission_decision = "allow", !.task_id = "lint"]
warning == safe_call_error("lint", "error text")

OutcomePool == {advisory_sec, blocker, ender, denier, allower, warning}

\* Every list of up to MaxResults outcomes, and lists in which a second
\* outcome competes with the first.
ResultLists ==
    UNION {[1..n -> OutcomePool] : n \in 0..MaxResults}
        \cup {<<allower, denier>>, <<blocker, advisory_sec>>, <<warning, advisory_sec>>,
              <<ender, denier>>, <<ender, blocker>>, <<allower, blocker>>}

\* block_on: not set; " security:ERROR "; "warn" and "SECURITY"; ":".
Policies ==
    {<<>>,
     <<Rule(TRUE, TRUE, Word("security"), Upper("error"))>>,
     <<Rule(FALSE, FALSE, Word("warn"), NoStr), Rule(FALSE, FALSE, Upper("security"), NoStr)>>,
     <<Rule(FALSE, TRUE, NoStr, NoStr)>>}

RouterEvents ==
    {"PreToolUse", "PostToolUse", "Stop", "SessionStart", "SessionEnd", "Notification", "Unknown"}

RouterInit ==
    /\ now = 0
    /\ fb = EmptyStore
    /\ prev = <<>>
    /\ ret = [op |-> "init"]
    /\ QueueEmpty
    /\ DiskIdle
    /\ cap = 2
    /\ RunIdle

\* The decisions of main(): every event, policy and list of outcomes, in a
\* session without background tasks.
DecideNext ==
    \/ \E event \in RouterEvents : InvokeReserved(event)
    \/ \E event \in RouterEvents : InvokeNoConfig(event)
    \/ \E event \in RouterEvents : InvokeNoTasks(event)
    \/ \E event \in RouterEvents, block_on \in Policies, results \in ResultLists :
          InvokeTasks(event, block_on, results)

SpecDecisions == RouterInit /\ [][DecideNext]_vars

\* The session: invocations over time, with the store and the queue.
SessionEvents == {"PostToolUse", "Stop", "SessionEnd"}
SessionResults ==
    {<<>>, <<advisory_x>>, <<advisory_x, advisory_x>>, <<blocker, advisory_x>>}
IncomingKinds == {"task", "garbage"}

\* What the children of the session do: they write and exit.
RouterRuns == {<<"json_feedback", "", TRUE>>, <<"text", "err", TRUE>>}

RouterMaxTime == 301    \* the session's clock stops advancing past this

RouterNext ==
    \/ \E d \in TickSteps : Tick(d, RouterMaxTime)
    \/ \E kind \in IncomingKinds : Drop(kind)
    \/ \E id \in TaskIds, r \in RouterRuns : ProcStep(id, r[1], r[2], r[3])
    \/ \E event \in SessionEvents : InvokeNoConfig(event)
    \/ \E event \in SessionEvents : InvokeNoTasks(event)
    \/ \E event \in SessionEvents, results \in SessionResults :
          InvokeTasks(event, <<>>, results)

SpecRouter == RouterInit /\ [][RouterNext]_vars

(***************************************************************************)
(* Claims about the invocations of main().                                 *)
(***************************************************************************)
Invoked(r) == r.op = "invoke"
Mapped(r) == Invoked(r) /\ r.stage = "mapped"

LiveIn(store, i, t) == IF i \in DOMAIN store THEN Live(store[i], t) ELSE FALSE

IsAdvisory(a) == a.add_context # NoText /\ ~a.block

SameText(a, b) == a.word = b.word

RuleMatches(rule, a) ==
    IF rule.colon
    THEN /\ rule.left.word = "" \/ SameText(rule.left, a.category)
         /\ rule.right.word = "" \/ SameText(rule.right, a.severity)
    ELSE IF rule.left.word \in {"info", "warn", "error"}
    THEN SameText(rule.left, a.severity)
    ELSE rule.left.word # "" /\ SameText(rule.left, a.category)

HardBlock(a, block_on) ==
    a.block \/ \E k \in 1..Len(block_on) : RuleMatches(block_on[k], a)

SomeHardBlock(r) == \E k \in 1..Len(r.results) : HardBlock(r.results[k], r.block_on)

\* C8: for PostToolUse, the response is {"decision": "block", ...} iff some
\* outcome has the block flag or matches a block_on rule ('severity',
\* 'category' or 'category:severity', the non-empty sides equal to the
\* outcome's, whatever the case); otherwise the response continues and holds
\* at most the advisory texts of the outcomes.  The outcome with severity
\* error and category security is blocked under ['security:error'] and is an
\* advisory without the rule.
C8_HardBlockIff ==
    (Mapped(ret) /\ ret.event = "PostToolUse") =>
        /\ ret.response.decision = "block" <=> SomeHardBlock(ret)
        /\ ~SomeHardBlock(ret) =>
              /\ ret.response.continue = "true"
              /\ ret.response.stopReason = <<>>
              /\ ret.response.hookSpecificOutput.permissionDecision = None
              /\ \A n \in 1..Len(ret.response.hookSpecificOutput.additionalContext) :
                    \E k \in 1..Len(ret.results) :
                        /\ IsAdvisory(ret.results[k])
                        /\ <<ret.response.hookSpecificOutput.additionalContext[n]>>
                              = text_of(ret.results[k].add_context)
        /\ (ret.results = <<advisory_sec>> /\ ret.block_on = <<>>) =>
              ret.response.decision = None

\* C8 witness: the outcome with severity error and category SECURITY under the
\* rule " security:ERROR " after PostToolUse: the response is a block.
C8_Witness ==
    /\ Mapped(ret)
    /\ ret.event = "PostToolUse"
    /\ ret.results = <<advisory_sec>>
    /\ ret.block_on = <<Rule(TRUE, TRUE, Word("security"), Upper("error"))>>
    /\ ret.response.decision = "block"

StopOrDeny(response) ==
    \/ response.continue = "false"
    \/ response.decision = "block"
    \/ response.hookSpecificOutput.permissionDecision = "deny"

SomeEnder(r) == \E k \in 1..Len(r.results) : r.results[k].end_turn

\* The first outcome that carries a permission decision says deny.
FirstDecisionDenies(r) ==
    \E k \in 1..Len(r.results) :
        /\ r.results[k].permission_decision = "deny"
        /\ \A j \in 1..(k - 1) : r.results[j].permission_decision = None

StoreEmpty == \A i \in DOMAIN fb : fb[i] = NoRow
QueueGone == (\A id \in TaskIds : q[id] = NoTask) /\ incoming = {}

\* C10: every SessionEnd invocation answers continue true and leaves neither
\* FeedbackStore rows nor BackgroundQueue rows or incoming files of the
\* session, whether or not a task is selected for SessionEnd.
C10_SessionEndCleans ==
    (Invoked(ret) /\ ret.event = "SessionEnd") =>
        /\ ret.response.continue = "true"
        /\ StoreEmpty
        /\ QueueGone

\* SessionEnd with no task selected, in a session that has feedback rows.
C10_Reach_NoTasksKeepsStore ==
    /\ Invoked(ret)
    /\ ret.event = "SessionEnd"
    /\ ret.stage = "no_tasks"
    /\ ~StoreEmpty

(***************************************************************************)
(* Several sessions on one machine: every FeedbackStore and BackgroundQueue *)
(* operation opens the files of session_dir(session_id).                   *)
(***************************************************************************)
OfSession(op, session_id) == ret' = [op |-> op, session |-> session_id]

InDir(session_id, field, value) ==
    disk' = [disk EXCEPT ![session_dir(session_id)][field] = value]

SRecord(s, content) ==
    LET dir == disk[session_dir(s)] IN
    /\ Capped(cleanup_expired(dir.fb, now), issue_id("lint", NoFile, content))
    /\ InDir(s, "fb", record_store(dir.fb, content, "lint", NoFile, None, None, "show_once", now))
    /\ OfSession("record", s)
    /\ UNCHANGED <<now, fbVars, qVars, runVars, health>>

SMarkShown(s, content) ==
    LET dir == disk[session_dir(s)]
        id == issue_id("lint", NoFile, content)
    IN  /\ dir.fb[id] # NoRow
        /\ Capped(dir.fb, id)
        /\ InDir(s, "fb", mark_shown(dir.fb, id))
        /\ OfSession("mark_shown", s)
        /\ UNCHANGED <<now, fbVars, qVars, runVars, health>>

SCleanupFeedback(s) ==
    /\ InDir(s, "fb", cleanup_session(disk[session_dir(s)].fb))
    /\ OfSession("cleanup_session", s)
    /\ UNCHANGED <<now, fbVars, qVars, runVars, health>>

MaxSessionTasks == 1    \* task ids handed out to the sessions together

SEnqueue(s, command, timeout) ==
    /\ nextId < MaxSessionTasks
    /\ nextId' = nextId + 1
    /\ InDir(s, "q", queue_task(disk[session_dir(s)].q, nextId + 1, command, "cli", timeout, now))
    /\ OfSession("enqueue", s)
    /\ UNCHANGED <<now, fbVars, q, procs, cap, incoming, runVars, health>>

\* An external tool writes a descriptor into the session's incoming/.
SDrop(s, kind) ==
    /\ kind \notin disk[session_dir(s)].incoming
    /\ InDir(s, "incoming", disk[session_dir(s)].incoming \cup {kind})
    /\ OfSession("drop", s)
    /\ UNCHANGED <<now, fbVars, qVars, runVars, health>>

SImport(s) ==
    LET dir == disk[session_dir(s)] IN
    \E st \in {import_from_incoming([q |-> dir.q, incoming |-> dir.incoming, nextId |-> nextId], now)} :
        /\ "task" \in dir.incoming => nextId < MaxSessionTasks
        /\ disk' = [disk EXCEPT ![session_dir(s)] = [@ EXCEPT !.q = st.q, !.incoming = st.incoming]]
        /\ nextId' = st.nextId
        /\ OfSession("import", s)
        /\ UNCHANGED <<now, fbVars, q, procs, cap, incoming, runVars, health>>

SSpawn(s) ==
    LET dir == disk[session_dir(s)] IN
    \E order \in PendingOrders(dir.q) :
    \E st \in {spawn_tasks([q |-> dir.q, procs |-> procs, ids |-> <<>>], cap, order, now)} :
        /\ InDir(s, "q", st.q)
        /\ procs' = st.procs
        /\ OfSession("spawn", s)
        /\ UNCHANGED <<now, fbVars, q, nextId, cap, incoming, runVars, health>>

SPoll(s) ==
    LET dir == disk[session_dir(s)] IN
    \E st \in {check_running_tasks([q |-> dir.q, procs |-> procs, ids |-> <<>>], now)} :
        /\ InDir(s, "q", st.q)
        /\ OfSession("poll", s)
        /\ UNCHANGED <<now, fbVars, qVars, runVars, health>>

SHarvest(s) ==
    LET dir == disk[session_dir(s)] IN
    \E st \in {process_completed_tasks([q |-> dir.q, feedback |-> <<>>])} :
        /\ InDir(s, "q", st.q)
        /\ OfSession("harvest", s)
        /\ UNCHANGED <<now, fbVars, qVars, runVars, health>>

SCleanupQueue(s) ==
    /\ disk' = [disk EXCEPT ![session_dir(s)] =
                    [@ EXCEPT !.q = cleanup_task_session(disk[session_dir(s)].q),
                              !.incoming = cleanup_incoming(disk[session_dir(s)].incoming)]]
    /\ OfSession("cleanup_task_session", s)
    /\ UNCHANGED <<now, fbVars, qVars, runVars, health>>

\* One advisory text and one command are enough to tell the sessions apart.
SessionInit ==
    /\ now = 0
    /\ fb = EmptyStore
    /\ prev = <<>>
    /\ ret = [op |-> "init"]
    /\ QueueEmpty
    /\ DiskIdle
    /\ cap = 2
    /\ RunIdle

SessionNext ==
    \/ \E s \in SessionIds : SRecord(s, [head |-> "warn x", tail |-> ""])
    \/ \E s \in SessionIds : SMarkShown(s, [head |-> "warn x", tail |-> ""])
    \/ \E s \in SessionIds : SCleanupFeedback(s)
    \/ \E s \in SessionIds : SEnqueue(s, "run", 60)
    \/ \E s \in SessionIds : SDrop(s, "task")
    \/ \E s \in SessionIds : SImport(s)
    \/ \E s \in SessionIds : SSpawn(s)
    \/ \E id \in TaskIds : ProcStep(id, "json_feedback", "", TRUE)
    \/ \E s \in SessionIds : SPoll(s)
    \/ \E s \in SessionIds : SHarvest(s)
    \/ \E s \in SessionIds : SCleanupQueue(s)

SpecSessions == SessionInit /\ [][SessionNext]_vars

\* What a session has persisted: the content of its directory.
Persisted(s) == disk[session_dir(s)]

SessionOps ==
    {"record", "mark_shown", "cleanup_session", "enqueue", "drop", "import", "spawn", "poll",
     "harvest", "cleanup_task_session"}

\* C11: for any two distinct session ids, an operation performed for the one
\* (record, mark shown, enqueue, import, spawn, poll, harvest, cleanup)
\* leaves what the other has persisted as it was: distinct sessions never
\* map to the same storage.
C11_SessionsIsolated ==
    [][\A s \in SessionIds, other \in SessionIds :
          (s # other /\ ret'.op \in SessionOps /\ ret' # ret /\ ret'.session = s)
             => Persisted(other)' = Persisted(other)]_vars

\* Reached: the two ids that share their first 16 characters name one
\* directory, and what one recorded is what the other finds.
C11_Reach_SharedDirectory ==
    \E s \in SessionIds, other \in SessionIds :
        /\ s # other
        /\ session_dir(s) = session_dir(other)
        /\ ret.op = "record" /\ ret.session = s
        /\ Persisted(other).fb # EmptyStore

(***************************************************************************)
(* ConfigResolver: common/config.py.  A name is a string with or without   *)
(* surrounding whitespace; a task entry is a string, a mapping with id,    *)
(* ref and disabled, or something else; an event section is a list of      *)
(* entries, a mapping with a tasks list, or a mapping without one.         *)
(***************************************************************************)
Name(w) == [word |-> w, pad |-> FALSE]
Padded(w) == [word |-> w, pad |-> TRUE]
NoName == Name("")

\* str.strip()
strip(n) == Name(n.word)

\* The entry "ref", and the entries {id: ..., ref: ..., disabled: ...}; ver
\* stands for the entry's other keys (params, file_types, ...).
StrEntry(ref) == [shape |-> "str", id |-> NoName, ref |-> ref, disabled |-> FALSE, ver |-> 0]
DictEntry(id, ref, ver) == [shape |-> "dict", id |-> id, ref |-> ref, disabled |-> FALSE, ver |-> ver]
Disabled(id, ref) == [shape |-> "dict", id |-> id, ref |-> ref, disabled |-> TRUE, ver |-> 0]
OtherEntry == [shape |-> "other", id |-> NoName, ref |-> NoName, disabled |-> FALSE, ver |-> 0]

\* _task_key: id, else ref, else the string, stripped; NoName when there is none.
task_key(entry) ==
    CASE entry.shape = "dict" ->
            IF strip(entry.id) # NoName THEN strip(entry.id) ELSE strip(entry.ref)
      [] entry.shape = "str" -> strip(entry.ref)
      [] OTHER -> NoName

ListSection(tasks) == [shape |-> "list", tasks |-> tasks, remove |-> <<>>]
DictSection(tasks, remove) == [shape |-> "dict", tasks |-> tasks, remove |-> remove]
BareSection(remove) == [shape |-> "bare", tasks |-> <<>>, remove |-> remove]
NoSection == [shape |-> "absent", tasks |-> <<>>, remove |-> <<>>]

\* _normalize_event_section: a list becomes {tasks: list}; a mapping with a
\* tasks list keeps its other keys; anything else becomes {tasks: []}.
normalize_event_section(section) ==
    CASE section.shape = "list" -> DictSection(section.tasks, <<>>)
      [] section.shape = "dict" -> section
      [] OTHER -> DictSection(<<>>, <<>>)

\* The dict `ordered` as the sequence of its items, in insertion order:
\* ordered[k] = ent keeps the place of a key that is there and appends a new
\* one; ordered.pop(k, None) takes the key out.
put_keeps_old(ordered, k, ent) ==
    IF \E i \in 1..Len(ordered) : ordered[i].k = k
    THEN ordered
    ELSE Append(ordered, [k |-> k, v |-> ent])

put(ordered, k, ent) ==
    IF \E i \in 1..Len(ordered) : ordered[i].k = k
    THEN [i \in 1..Len(ordered) |-> IF ordered[i].k = k THEN [k |-> k, v |-> ent] ELSE ordered[i]]
    ELSE Append(ordered, [k |-> k, v |-> ent])

pop(ordered, k) == SelectSeq(ordered, LAMBDA item : item.k # k)

\* Seed with A's tasks.
RECURSIVE seed(_, _)
seed(ordered, tasks) ==
    IF tasks = <<>> THEN ordered
    ELSE seed(IF task_key(Head(tasks)) = NoName THEN ordered
              ELSE put(ordered, task_key(Head(tasks)), Head(tasks)),
              Tail(tasks))

\* Apply removes declared in B: `rid in ordered` compares the raw string.
RECURSIVE apply_removes(_, _)
apply_removes(ordered, removes) ==
    IF removes = <<>> THEN ordered
    ELSE apply_removes(pop(ordered, Head(removes)), Tail(removes))

\* Apply B's tasks.
RECURSIVE apply_tasks(_, _)
apply_tasks(ordered, tasks) ==
    IF tasks = <<>> THEN ordered
    ELSE LET ent == Head(tasks)
             k == task_key(ent)
         IN  apply_tasks(IF k = NoName THEN ordered
                         ELSE IF ent.shape = "dict" /\ ent.disabled THEN pop(ordered, k)
                         ELSE put(ordered, k, ent),
                         Tail(tasks))

values(ordered) == [i \in 1..Len(ordered) |-> ordered[i].v]

merge_event_sections_removes_last(a, b) ==
    LET sa == normalize_event_section(a)
        sb == normalize_event_section(b)
    IN  DictSection(values(apply_removes(apply_tasks(seed(<<>>, sa.tasks), sb.tasks), sb.remove)),
                    sa.remove)

\* _merge_event_sections(a, b)
merge_event_sections(a, b) ==
    LET sa == normalize_event_section(a)
        sb == normalize_event_section(b)
    IN  DictSection(values(apply_tasks(apply_removes(seed(<<>>, sa.tasks), sb.remove), sb.tasks)),
                    sa.remove)

\* A config document: its extends list, one event section (PostToolUse) and
\* one plain key (concurrency); NoValue and NoSection mark an absent key.
NoValue == -1
Config(extends, section, concurrency) ==
    [extends |-> extends, section |-> section, concurrency |-> concurrency]
EmptyConfig == Config(<<>>, NoSection, NoValue)

\* _DEFAULTS: concurrency 6 and every event section {"tasks": []}.
DEFAULTS == Config(<<>>, DictSection(<<>>, <<>>), 6)

\* _merge_configs(a, b): an event key of b is merged into a's section (or
\* into {"tasks": []}), any other key of b overrides.
merge_configs(a, b) ==
    [extends |-> IF b.extends = <<>> THEN a.extends ELSE b.extends,
     section |-> IF b.section = NoSection THEN a.section
                 ELSE merge_event_sections(IF a.section = NoSection THEN DictSection(<<>>, <<>>)
                                           ELSE a.section,
                                           b.section),
     concurrency |-> IF b.concurrency = NoValue THEN a.concurrency ELSE b.concurrency]

(***************************************************************************)
(* Loading: a world is the files of the project, file name -> what reading *)
(* it gives; a source is a file name as it is written in --config or in an *)
(* extends list, with or without a leading "./".                           *)
(***************************************************************************)
Missing == [state |-> "missing", cfg |-> EmptyConfig]
Invalid == [state |-> "invalid", cfg |-> EmptyConfig]
Doc(cfg) == [state |-> "ok", cfg |-> cfg]

Source(file) == [file |-> file, dotted |-> FALSE]
Dotted(file) == [file |-> file, dotted |-> TRUE]

\* str((base_dir / token).resolve()): the spellings of a file have one key.
resolve(source) == source.file

\* p.exists()
exists(world, file) ==
    IF file \in DOMAIN world THEN world[file].state # "missing" ELSE FALSE

\* _load_one: the mapping the file holds, or None when the file is not
\* there or does not parse to a mapping.
NoData == [none |-> TRUE]
load_one(world, source) ==
    IF exists(world, source.file)
    THEN IF world[source.file].state = "ok" THEN world[source.file].cfg ELSE NoData
    ELSE NoData

\* {k: v for k, v in cfg.items() if k != "extends"}
sans_extends(cfg) == [cfg EXCEPT !.extends = <<>>]

\* _resolve_extends(cfg, origin, seen), with `seen` threaded through the
\* recursion as the code's one mutable set is, and `log` the files whose own
\* keys were merged, in the order of the merges.
RECURSIVE resolve_extends(_, _, _, _)
RECURSIVE resolve_items(_, _, _)
resolve_items(world, items, st) ==
    IF items = <<>> THEN st
    ELSE LET key == resolve(Head(items)) IN
         IF key \in st.seen THEN resolve_items(world, Tail(items), st)
         ELSE LET data == load_one(world, Head(items)) IN
              IF data = NoData
              THEN resolve_items(world, Tail(items), [st EXCEPT !.seen = @ \cup {key}])
              ELSE LET child == resolve_extends(world, key, data,
                                                [seen |-> st.seen \cup {key}, log |-> st.log])
                   IN  resolve_items(world, Tail(items),
                                     [merged |-> merge_configs(st.merged, child.cfg),
                                      seen |-> child.seen, log |-> child.log])

resolve_extends(world, file, cfg, st) ==
    IF cfg.extends = <<>>
    THEN [cfg |-> sans_extends(cfg), seen |-> st.seen, log |-> Append(st.log, file)]
    ELSE LET r == resolve_items(world, cfg.extends,
                                [merged |-> EmptyConfig, seen |-> st.seen, log |-> st.log])
         IN  [cfg |-> merge_configs(r.merged, sans_extends(cfg)),
              seen |-> r.seen, log |-> Append(r.log, file)]

\* _candidate_paths: the file CLAUDE_HOOKS_CONFIG names, else the six
\* places a project keeps its config.
NoEnv == [file |-> "", dotted |-> FALSE]
candidate_paths(env) ==
    IF env # NoEnv THEN <<env.file>>
    ELSE <<"hooks.yml", "hooks.yaml", "config/hooks.yml", "config/hooks.yaml",
           ".claude/hooks/config/hooks.yml", "hooks.json">>

\* Discovery: the first candidate that exists, alone.
discover(world, env) ==
    LET found == SelectSeq(candidate_paths(env), LAMBDA f : exists(world, f)) IN
    IF found = <<>> THEN <<>> ELSE <<Source(Head(found))>>

\* The loop over the sources: a source that gives no mapping is passed over.
RECURSIVE load_sources(_, _, _)
load_sources(world, sources, st) ==
    IF sources = <<>> THEN st
    ELSE LET data == load_one(world, Head(sources)) IN
         IF data = NoData THEN load_sources(world, Tail(sources), st)
         ELSE LET r == resolve_extends(world, resolve(Head(sources)), data,
                                       [seen |-> st.seen, log |-> st.log])
              IN  load_sources(world, Tail(sources),
                               [cfg |-> merge_configs(st.cfg, r.cfg), seen |-> r.seen,
                                log |-> r.log])

\* _load_config_cached(key): key is the tuple of --config sources, empty
\* for discovery.  It raises only when there is no source at all.
load_config(world, key, env) ==
    LET sources == IF key # <<>> THEN key ELSE discover(world, env) IN
    IF sources = <<>>
    THEN [raised |-> TRUE, cfg |-> DEFAULTS, log |-> <<>>, sources |-> sources]
    ELSE LET r == load_sources(world, sources, [cfg |-> DEFAULTS, seen |-> {}, log |-> <<>>])
         IN  [raised |-> FALSE, cfg |-> r.cfg, log |-> r.log, sources |-> sources]

\* select_tasks: the entries of the event's section that name a ref, one
\* descriptor per id (the entry's id, else its ref).
descriptor_id(entry) == IF strip(entry.id) # NoName THEN entry.id ELSE entry.ref

parse_task_entry(entry) == entry.shape \in {"str", "dict"} /\ entry.ref # NoName

RECURSIVE dedupe_descriptors(_, _)
dedupe_descriptors(items, out) ==
    IF items = <<>> THEN out
    ELSE dedupe_descriptors(Tail(items),
            IF \E i \in 1..Len(out) : descriptor_id(out[i]) = descriptor_id(Head(items))
            THEN out ELSE Append(out, Head(items)))

select_tasks(cfg) ==
    IF cfg.section.shape \in {"dict", "list"}
    THEN dedupe_descriptors(SelectSeq(cfg.section.tasks, parse_task_entry), <<>>)
    ELSE <<>>

(***************************************************************************)
(* The inputs the configuration specification draws, and its operations.   *)
(***************************************************************************)
MaxEntries == 2         \* entries in a layer's task list
MaxExtends == 2         \* sources in an extends list

Lists(S, n) == UNION {[1..k -> S] : k \in 0..n}

\* "A", " A ", {ref: B}, {ref: B, params: ...}, {id: C, ref: B}, "D",
\* {ref: B, disabled: true}, {id: C, disabled: true}, {} and 7.
EntryA == StrEntry(Name("A"))
EntryB == DictEntry(NoName, Name("B"), 1)
EntryB2 == DictEntry(NoName, Name("B"), 2)
EntryC == DictEntry(Name("C"), Name("B"), 1)
EntryPool ==
    {EntryA, StrEntry(Padded("A")), EntryB, EntryB2, EntryC, StrEntry(Name("D")),
     Disabled(NoName, Name("B")), Disabled(Name("C"), NoName),
     DictEntry(NoName, NoName, 1), OtherEntry}

\* remove: absent, [C], [B], [" C "], [C, D]
Removes == {<<>>, <<Name("C")>>, <<Name("B")>>, <<Padded("C")>>, <<Name("C"), Name("D")>>}

\* The sections a document may hold for an event.
Layers ==
    {DictSection(tasks, remove) : tasks \in Lists(EntryPool, MaxEntries), remove \in Removes}
        \cup {ListSection(tasks) : tasks \in Lists(EntryPool, MaxEntries)}
        \cup {BareSection(remove) : remove \in Removes}

\* The sections a merge is given as its first argument: what merging the
\* layers so far has produced, and the base [A, B, C].
BaseABC == DictSection(<<EntryA, EntryB, EntryC>>, <<>>)
Bases ==
    {merge_event_sections(DictSection(<<>>, <<>>), layer) : layer \in Layers} \cup {BaseABC}

\* The configs merge(c, c) is asked about.
SelfConfigs ==
    {Config(<<>>, section, concurrency) :
        section \in Layers \cup {NoSection, BaseABC}, concurrency \in {NoValue, 4}}

\* The files of the model project, and what an extends list may name.
ProjectFiles == {"hooks.yml", "base.yml", "mid.yml"}
Spellings == {Source(f) : f \in ProjectFiles} \cup {Dotted("base.yml")}

\* What a file of the project may hold: a document with one task named
\* after the file and an extends list of at most n sources; hooks.yml may
\* also hold tasks [X, Y] with remove: [X] and extend itself.
TaskOf(file) == StrEntry(Name(file))
Docs(file, n) ==
    {Doc(Config(e, ListSection(<<TaskOf(file)>>), NoValue)) : e \in Lists(Spellings, n)}
SelfRemoving ==
    Doc(Config(<<Source("hooks.yml")>>,
               DictSection(<<StrEntry(Name("X")), StrEntry(Name("Y"))>>, <<Name("X")>>), NoValue))

Worlds(n) ==
    {[f \in ProjectFiles |-> CASE f = "hooks.yml" -> a [] f = "base.yml" -> b [] OTHER -> c] :
        a \in Docs("hooks.yml", n) \cup {SelfRemoving},
        b \in Docs("base.yml", n - 1) \cup {Missing, Invalid},
        c \in Docs("mid.yml", n - 1) \cup {Missing}}

\* --config: absent, one file, two files.
Keys == {<<>>, <<Source("hooks.yml")>>, <<Source("mid.yml"), Source("base.yml")>>}

\* The projects an invocation of main() is run in: hooks.yml is absent,
\* unparseable, without tasks or with a task; hooks.yaml and given.yml
\* (the file --config or CLAUDE_HOOKS_CONFIG names) likewise.
MainFiles == {"hooks.yml", "hooks.yaml", "given.yml"}
Tasked(file) == Doc(Config(<<>>, ListSection(<<TaskOf(file)>>), NoValue))
MainWorlds ==
    {[f \in MainFiles |-> CASE f = "hooks.yml" -> a [] f = "hooks.yaml" -> b [] OTHER -> c] :
        a \in {Missing, Invalid, Doc(EmptyConfig), Tasked("hooks.yml")},
        b \in {Missing, Tasked("hooks.yaml")},
        c \in {Missing, Invalid, Tasked("given.yml")}}
MainKeys == {<<>>, <<Source("given.yml")>>, <<Source("given.yml"), Source("hooks.yml")>>}
MainEnvs == {NoEnv, Source("given.yml")}
MainEvents == {"PostToolUse", "SessionStart"}

Args(fn, args) == [op |-> "args", fn |-> fn, args |-> args]

MergeInputs(bases) == {Args("merge_event_sections", <<a, b>>) : a \in bases, b \in Layers}

SelfInputs == {Args("merge_configs", <<c>>) : c \in SelfConfigs}

ConfigInputs(n) ==
    {Args("load_config", <<w, key>>) : w \in Worlds(n), key \in Keys}
        \cup {Args("main", <<event, w, key, env, results>>) :
                 event \in MainEvents, w \in MainWorlds, key \in MainKeys, env \in MainEnvs,
                 results \in {<<advisory_x>>, <<blocker>>}}

Called(fn) == ret.op = "args" /\ ret.fn = fn

MergeSections ==
    /\ Called("merge_event_sections")
    /\ ret' = [op |-> "merge_event_sections", a |-> ret.args[1], b |-> ret.args[2],
               out |-> merge_event_sections(ret.args[1], ret.args[2])]
    /\ UNCHANGED <<diskVars, now, fbVars, qVars, runVars>>

\* merge(c, c), and the result merged with c again.
MergeSelf ==
    /\ Called("merge_configs")
    /\ \E once \in {merge_configs(ret.args[1], ret.args[1])} :
          ret' = [op |-> "merge_configs", c |-> ret.args[1], once |-> once,
                  twice |-> merge_configs(once, ret.args[1])]
    /\ UNCHANGED <<diskVars, now, fbVars, qVars, runVars>>

LoadConfig ==
    /\ Called("load_config")
    /\ ret' = [op |-> "load_config", world |-> ret.args[1], key |-> ret.args[2],
               out |-> load_config(ret.args[1], ret.args[2], NoEnv)]
    /\ UNCHANGED <<diskVars, now, fbVars, qVars, runVars>>

\* main() from load_config on: the failure response when it raises, the
\* bare {"continue": true} when no task is selected, else the tasks run.
InvokeConfigured ==
    /\ Called("main")
    /\ \E event \in {ret.args[1]}, results \in {ret.args[5]} :
       \E out \in {load_config(ret.args[2], ret.args[3], ret.args[4])} :
       \E load \in {[world |-> ret.args[2], key |-> ret.args[3], env |-> ret.args[4],
                      out |-> out]} :
          IF out.raised
          THEN /\ Respond(load, "config", event, <<>>, <<>>, {},
                          refused(event, "xenohooks: No hooks config found"))
               /\ UNCHANGED <<diskVars, now, fbVars, qVars, runVars>>
          ELSE IF select_tasks(out.cfg) = <<>>
          THEN /\ Respond(load, "no_tasks", event, <<>>, <<>>, {}, Continue)
               /\ UNCHANGED <<diskVars, now, fbVars, qVars, runVars>>
          ELSE RunTasks(load, event, <<>>, results)

Idle(inputs) ==
    /\ now = 0
    /\ fb = EmptyStore
    /\ prev = <<>>
    /\ ret \in inputs
    /\ QueueEmpty
    /\ DiskIdle
    /\ cap = 2
    /\ RunIdle

MergeInit == Idle(MergeInputs(Bases))
MergeNext == MergeSections
SpecMerge == MergeInit /\ [][MergeNext]_vars

SelfInit == Idle(SelfInputs)
SelfNext == MergeSelf
SpecSelfMerge == SelfInit /\ [][SelfNext]_vars

ConfigInit == Idle(ConfigInputs(MaxExtends))
ConfigNext ==
    \/ LoadConfig
    \/ InvokeConfigured
SpecConfig == ConfigInit /\ [][ConfigNext]_vars

\* The sources load_config went through, and those of them that gave a
\* document.
Loaded(r) == r.op = "invoke" /\ r.load # NoLoad
SourcesOf(r) == {r.load.out.sources[k] : k \in 1..Len(r.load.out.sources)}
Parsed(r) == {src \in SourcesOf(r) : load_one(r.load.world, src) # NoData}

FailsFatally(r) ==
    /\ r.response.continue = "false"
    /\ r.response.stopReason # <<>>
    /\ r.stage = "config"

\* C12: configuration resolution fails fatally whenever no source is found
\* or every candidate source fails to parse (an explicitly given source that
\* does not exist or is not a valid document included): the invocation then
\* answers continue false with a stopReason and runs no task against a
\* default or partial config.
C12_NoSourceFailsFatally ==
    (Loaded(ret) /\ Parsed(ret) = {}) => FailsFatally(ret)

\* Reached: nothing is found at all, and the invocation stops the session.
C12_Reach_NothingFound ==
    Loaded(ret) /\ SourcesOf(ret) = {} /\ FailsFatally(ret)

\* Reached: the one file --config names does not exist, load_config
\* returns the defaults and the invocation answers {"continue": true}.
C12_Reach_DefaultsUsed ==
    /\ Loaded(ret) /\ SourcesOf(ret) # {} /\ Parsed(ret) = {}
    /\ ret.load.out.cfg = DEFAULTS
    /\ ret.response = Continue

(***************************************************************************)
(* The session's sqlite files may stop opening: another process corrupts   *)
(* one or holds its lock past the connection's timeout.                    *)
(***************************************************************************)
StorageFiles == {"feedback", "queue"}
Faults == {"corrupt", "locked"}

Damage(file, how) ==
    /\ health[file] = "ok"
    /\ health' = [health EXCEPT ![file] = how]
    /\ ret' = [op |-> "damage", file |-> file, how |-> how]
    /\ UNCHANGED <<disk, now, fbVars, qVars, runVars>>

\* The process that held the lock lets go.
Release(file) ==
    /\ health[file] = "locked"
    /\ health' = [health EXCEPT ![file] = "ok"]
    /\ ret' = [op |-> "release", file |-> file]
    /\ UNCHANGED <<disk, now, fbVars, qVars, runVars>>

FaultResults == {<<>>, <<advisory_x>>, <<blocker>>}

FaultNext ==
    \/ \E file \in StorageFiles, how \in Faults : Damage(file, how)
    \/ \E file \in StorageFiles : Release(file)
    \/ \E kind \in {"task", "no_command"} : Drop(kind)
    \/ \E id \in TaskIds : ProcStep(id, "json_feedback", "", TRUE)
    \/ \E event \in RouterEvents : InvokeReserved(event)
    \/ \E event \in RouterEvents : InvokeNoConfig(event)
    \/ \E event \in RouterEvents : InvokeNoTasks(event)
    \/ \E event \in RouterEvents, results \in FaultResults : InvokeTasks(event, <<>>, results)

SpecFaults == RouterInit /\ [][FaultNext]_vars

Aborted(r) == Invoked(r) /\ r.stage = "aborted"

\* C13: when the session's persisted FeedbackStore or BackgroundQueue state
\* is corrupt or locked, the invocation does not abort: it still writes its
\* normal response for the outcomes of the tasks it ran.
C13_StorageFaultDegrades ==
    (Invoked(ret) /\ \E file \in StorageFiles : ~Opens(file)) => ~Aborted(ret)

\* Reached: with a feedback database that does not open, an invocation that
\* has no advisory to record answers as usual.
C13_Reach_AnswersWithoutStore ==
    Invoked(ret) /\ ~Opens("feedback") /\ Opens("queue") /\ Mapped(ret)

\* The housekeeping of main(): import, spawn, poll, harvest, in this order.
housekeeping(st, order, t) ==
    LET imported == import_from_incoming([q |-> st.q, incoming |-> st.incoming,
                                          nextId |-> st.nextId], t)
        spawned == spawn_tasks([q |-> imported.q, procs |-> st.procs, ids |-> <<>>], 2, order, t)
        checked == check_running_tasks(spawned, t)
        harvested == process_completed_tasks([q |-> checked.q, feedback |-> <<>>])
    IN  [q |-> harvested.q, procs |-> checked.procs, incoming |-> imported.incoming,
         nextId |-> imported.nextId]

Resolved(r) == Invoked(r) /\ r.stage \in {"no_tasks", "mapped"}

\* C14: every invocation that resolves a configuration performs the
\* background housekeeping (import, spawn, poll, harvest, in this order)
\* before it answers, whatever the number of tasks selected for the event,
\* zero included.  (SessionEnd, which goes on to delete the queue, is left
\* to C10.)
C14_HousekeepingAlways ==
    [][(Resolved(ret') /\ ret'.event # "SessionEnd")
          => \E order \in PendingOrders(import_from_incoming(
                              [q |-> q, incoming |-> incoming, nextId |-> nextId], now).q) :
                [q |-> q', procs |-> procs', incoming |-> incoming', nextId |-> nextId']
                    = housekeeping([q |-> q, procs |-> procs, incoming |-> incoming,
                                    nextId |-> nextId], order, now)]_vars

\* Reached: tasks were selected and the dropped descriptor was imported.
C14_Reach_HousekeptWithTasks ==
    Mapped(ret) /\ \E id \in TaskIds : q[id] # NoTask

\* C15: every invocation whose input is a JSON object with a
\* hook_event_name writes exactly one JSON object to the output stream, on
\* every path: reserved-namespace stop, configuration failure, no selected
\* tasks, each known event class, an unknown event name.
C15_ExactlyOneObject ==
    Invoked(ret) => Len(ret.written) = 1

\* Reached: each of the paths writes its one object when the storage opens.
C15_Reach_EveryPathWrites ==
    /\ Invoked(ret) /\ Len(ret.written) = 1
    /\ ret.stage = "mapped" /\ ret.event = "Unknown"

(***************************************************************************)
(* importExternal on its own: external tools drop descriptors, the queue   *)
(* database may not open, import_from_incoming goes through the files.     *)
(***************************************************************************)
DescriptorKinds == {"task", "no_command", "not_object", "garbage"}

Import ==
    \E st \in {IF Opens("queue")
                THEN import_from_incoming([q |-> q, incoming |-> incoming, nextId |-> nextId], now)
                ELSE [q |-> q, incoming |-> import_unqueued(incoming), nextId |-> nextId]} :
        /\ q' = st.q
        /\ incoming' = st.incoming
        /\ nextId' = st.nextId
        /\ ret' = [op |-> "import", before |-> incoming, had |-> q, opened |-> Opens("queue")]
        /\ UNCHANGED <<diskVars, now, fbVars, procs, cap, runVars>>

ImportNext ==
    \/ \E kind \in DescriptorKinds : Drop(kind)
    \/ Import
    \/ \E how \in Faults : Damage("queue", how)
    \/ Release("queue")
    \/ \E d \in QTickSteps : Tick(d, QMaxTime)

SpecImport == RouterInit /\ [][ImportNext]_vars

Enqueued(r) == {id \in TaskIds : q[id] # NoTask /\ r.had[id] = NoTask}

\* C16, as the claim has it: after the import the directory holds no
\* descriptor file; malformed files were deleted.
C16_ImportLeavesNothing ==
    ret.op = "import" => incoming = {}

\* C16, amended: after the import, the file with a command list has
\* enqueued exactly one pending task and is deleted, unless the queue
\* database did not open, in which case it stays and nothing is enqueued;
\* the object without a command list is deleted and enqueues nothing; the
\* file that does not parse or holds no object stays and enqueues nothing;
\* the tasks that were queued before are as they were.
C16_ImportSettlesFiles ==
    ret.op = "import" =>
        /\ incoming = {f \in ret.before : f \in Unreadable \/ (f = "task" /\ ~ret.opened)}
        /\ IF "task" \in ret.before /\ ret.opened
           THEN /\ Cardinality(Enqueued(ret)) = 1
                /\ \A id \in Enqueued(ret) : q[id].status = "pending"
           ELSE Enqueued(ret) = {}
        /\ \A id \in TaskIds : ret.had[id] # NoTask => q[id] = ret.had[id]

\* Reached: an import that met a descriptor with a command list, one
\* without and one that does not parse.
C16_Witness ==
    /\ ret.op = "import" /\ ret.opened
    /\ {"task", "no_command", "garbage"} \subseteq ret.before
    /\ incoming = {"garbage"}
    /\ Cardinality(Enqueued(ret)) = 1

\* What spawn left in the session's output/ directory.
OutputFiles == {id \in TaskIds : procs[id].state # "none"}

\* C17: after cleanup of the queue none of the session's queue storage,
\* drop-in directory or per-task stdout/stderr files written by spawn
\* remains, whatever states the session's tasks were in.
C17_CleanupLeavesNothing ==
    ret.op = "cleanup_task_session" =>
        /\ \A id \in TaskIds : q[id] = NoTask
        /\ incoming = {}
        /\ OutputFiles = {}

\* Reached: a cleanup that removed the rows and the files of incoming/.
C17_Reach_RowsGone ==
    /\ ret.op = "cleanup_task_session"
    /\ \A id \in TaskIds : q[id] = NoTask
    /\ OutputFiles # {}

(***************************************************************************)
(* Claims about the merge of event sections.                               *)
(***************************************************************************)
Range(seq) == {seq[i] : i \in 1..Len(seq)}
KeysIn(tasks) == {task_key(e) : e \in Range(tasks)} \ {NoName}

\* Where an identity first stands in a list, and the last entry it has.
Pos(tasks, k) ==
    CHOOSE i \in 1..Len(tasks) :
        task_key(tasks[i]) = k /\ \A j \in 1..(i - 1) : task_key(tasks[j]) # k
LastOf(tasks, k) ==
    tasks[CHOOSE i \in 1..Len(tasks) :
             task_key(tasks[i]) = k /\ \A j \in (i + 1)..Len(tasks) : task_key(tasks[j]) # k]

\* The identities the layer removes, those it disables, and those it gives
\* an entry that is not disabled.
RemovedBy(layer) == Range(layer.remove)
DisabledBy(layer) == {task_key(e) : e \in {x \in Range(layer.tasks) : x.disabled}} \ {NoName}
GivenBy(layer) == {task_key(e) : e \in {x \in Range(layer.tasks) : ~x.disabled}} \ {NoName}

\* The earlier identities the layer neither removes nor disables, and the
\* identities that are new with the layer.
Stable(a, layer) == KeysIn(a.tasks) \ (RemovedBy(layer) \cup DisabledBy(layer))
NewWith(a, layer) == GivenBy(layer) \ (KeysIn(a.tasks) \cup DisabledBy(layer))

Merged(r) == r.op = "merge_event_sections"

\* The earlier tasks keep their order, a later entry with the same identity
\* stands where the earlier one stood.
OrderKept(a, layer, out) ==
    \A k \in Stable(a, layer) :
        /\ k \in KeysIn(out)
        /\ out[Pos(out, k)] = IF k \in GivenBy(layer) THEN LastOf(layer.tasks, k)
                               ELSE LastOf(a.tasks, k)
        /\ \A other \in Stable(a, layer) :
              Pos(a.tasks, k) < Pos(a.tasks, other) => Pos(out, k) < Pos(out, other)

\* A removed identity disappears.
RemovedGone(a, layer, out) ==
    \A k \in (RemovedBy(layer) \cup DisabledBy(layer)) \ GivenBy(layer) : k \notin KeysIn(out)

\* Entries with new identities are appended, in their own order.
NewAppended(a, layer, out) ==
    \A k \in NewWith(a, layer) :
        /\ k \in KeysIn(out)
        /\ out[Pos(out, k)] = LastOf(layer.tasks, k)
        /\ \A old \in Stable(a, layer) : Pos(out, old) < Pos(out, k)
        /\ \A other \in NewWith(a, layer) :
              Pos(layer.tasks, k) < Pos(layer.tasks, other) => Pos(out, k) < Pos(out, other)

\* The override of the example: it replaces B and removes C.
OverrideB2 == DictSection(<<EntryB2>>, <<Name("C")>>)

\* C18: merging an event section's task list with a later layer preserves
\* the order of the earlier tasks: a later entry with the same identity
\* replaces the earlier one in its original position, a removed identity
\* disappears, entries with new identities are appended in their own order;
\* base [A, B, C] with an override that replaces B and removes C resolves to
\* [A, B'].
C18_MergeKeepsOrder ==
    Merged(ret) =>
        /\ OrderKept(ret.a, ret.b, ret.out.tasks)
        /\ RemovedGone(ret.a, ret.b, ret.out.tasks)
        /\ NewAppended(ret.a, ret.b, ret.out.tasks)
        /\ (ret.a = BaseABC /\ ret.b = OverrideB2) => ret.out.tasks = <<EntryA, EntryB2>>

\* Reached: the example of the claim resolves to [A, B'].
C18_Reach_Example ==
    Merged(ret) /\ ret.a = BaseABC /\ ret.b = OverrideB2 /\ ret.out.tasks = <<EntryA, EntryB2>>

\* Reached: a layer that holds a remove list and no tasks leaves the
\* identity it removes in place.
C18_Reach_RemoveIgnored ==
    /\ Merged(ret) /\ ret.a = BaseABC /\ ret.b = BareSection(<<Name("C")>>)
    /\ ret.out.tasks = <<EntryA, EntryB, EntryC>>

(***************************************************************************)
(* Claims about merging a config with itself.                              *)
(***************************************************************************)
SelfMerged(r) == r.op = "merge_configs"

\* The task list of the config's event section, as the merge reads it.
TasksOf(c) ==
    IF c.section = NoSection THEN <<>> ELSE normalize_event_section(c.section).tasks
RemoveOf(c) ==
    IF c.section = NoSection THEN <<>> ELSE normalize_event_section(c.section).remove

\* A task list deduplicated by identity in its original order: one entry
\* per identity, where the identity first stands, holding its last entry;
\* entries without identity are not in it.
RECURSIVE Dedup(_, _)
Dedup(tasks, all) ==
    IF tasks = <<>> THEN <<>>
    ELSE LET k == task_key(Head(tasks)) IN
         IF k = NoName THEN Dedup(Tail(tasks), all)
         ELSE <<LastOf(all, k)>> \o Dedup(SelectSeq(Tail(tasks), LAMBDA e : task_key(e) # k), all)

\* The section disables none of its entries and removes none of its own.
Plain(c) ==
    /\ \A e \in Range(TasksOf(c)) : ~e.disabled
    /\ Range(RemoveOf(c)) \cap KeysIn(TasksOf(c)) = {}

\* One entry for each identity whose last entry is not disabled.
OnePerIdentity(c, tasks) ==
    /\ KeysIn(tasks) = {k \in KeysIn(TasksOf(c)) : ~LastOf(TasksOf(c), k).disabled}
    /\ Len(tasks) = Cardinality(KeysIn(tasks))
    /\ \A e \in Range(tasks) : e = LastOf(TasksOf(c), task_key(e))

\* C19, as the claim has it: merge(c, c) has in each event section the tasks
\* of c deduplicated by identity in their original order, and merging the
\* result with c again changes nothing.
C19_SelfMergeDedups ==
    (SelfMerged(ret) /\ ret.c.section # NoSection) =>
        /\ ret.once.section.tasks = Dedup(TasksOf(ret.c), TasksOf(ret.c))
        /\ ret.twice = ret.once

\* C19, amended: merging merge(c, c) with c again changes nothing; the
\* event section of merge(c, c) holds one entry for each identity of c whose
\* last entry is not disabled, that entry; and when the section disables no
\* entry and removes none of its own, these are the tasks of c deduplicated
\* by identity in their original order.
C19_SelfMergeIdempotent ==
    SelfMerged(ret) =>
        /\ ret.twice = ret.once
        /\ ret.c.section = NoSection => ret.once.section = NoSection
        /\ ret.c.section # NoSection =>
              /\ OnePerIdentity(ret.c, ret.once.section.tasks)
              /\ Plain(ret.c) =>
                    ret.once.section.tasks = Dedup(TasksOf(ret.c), TasksOf(ret.c))

\* Reached: a section that names one identity twice, merged with itself.
C19_Witness ==
    /\ SelfMerged(ret) /\ Plain(ret.c)
    /\ Len(TasksOf(ret.c)) = 2
    /\ Len(ret.once.section.tasks) = 1
    /\ ret.twice = ret.once

\* Reached: a section that removes one of its own tasks comes out of
\* merge(c, c) in another order.
C19_Reach_OwnRemoveReorders ==
    /\ SelfMerged(ret)
    /\ \A e \in Range(TasksOf(ret.c)) : ~e.disabled
    /\ Len(ret.once.section.tasks) = 2
    /\ ret.once.section.tasks # Dedup(TasksOf(ret.c), TasksOf(ret.c))

(***************************************************************************)
(* Claims about the extends chain.                                         *)
(***************************************************************************)
Resolved1(r) == r.op = "load_config" /\ Len(r.key) = 1 /\ load_one(r.world, r.key[1]) # NoData

\* The documents a document names in its extends list that load.
Extended(world, file) ==
    IF load_one(world, Source(file)) = NoData THEN {}
    ELSE {resolve(src) : src \in {s \in Range(load_one(world, Source(file)).extends) :
                                       load_one(world, s) # NoData}}

\* The chain of a document: itself and what it extends, directly or
\* transitively.
RECURSIVE Chain(_, _)
Chain(world, files) ==
    LET more == files \cup UNION {Extended(world, f) : f \in files} IN
    IF more = files THEN files ELSE Chain(world, more)

Merges(log, file) == Cardinality({i \in 1..Len(log) : log[i] = file})

\* A document that is in its own chain of extends.
OnCycle(world, file) == file \in Chain(world, Extended(world, file))

\* C20: resolving a config whose extends chain has a cycle or a shared
\* ancestor ends, and every document of the chain, the self-extending
\* document included, is merged into the result exactly once.
C20_EachDocumentOnce ==
    Resolved1(ret) =>
        \A f \in Chain(ret.world, {resolve(ret.key[1])}) : Merges(ret.out.log, f) = 1

\* Reached: an ancestor reached by two paths is merged once.
C20_Reach_SharedAncestorOnce ==
    /\ Resolved1(ret)
    /\ "base.yml" \in Extended(ret.world, "hooks.yml") \cap Extended(ret.world, "mid.yml")
    /\ "mid.yml" \in Extended(ret.world, "hooks.yml")
    /\ ret.out.log = <<"base.yml", "mid.yml", "hooks.yml">>

\* Reached: a document that extends itself is merged twice, and its own
\* remove list is applied to its own tasks.
C20_Reach_SelfExtendingTwice ==
    /\ Resolved1(ret)
    /\ ret.world["hooks.yml"] = SelfRemoving
    /\ ret.out.log = <<"hooks.yml", "hooks.yml">>
    /\ ret.out.cfg.section.tasks = <<StrEntry(Name("Y")), StrEntry(Name("X"))>>

\* Reached: a cycle through another document merges the first one twice.
C20_Reach_CycleThroughBase ==
    /\ Resolved1(ret)
    /\ ret.out.log = <<"hooks.yml", "base.yml", "hooks.yml">>

\* Every document off a cycle is merged once, the others at most twice.
C20_Aside_OffCycleOnce ==
    Resolved1(ret) =>
        \A f \in Chain(ret.world, {resolve(ret.key[1])}) :
            /\ Merges(ret.out.log, f) \in {1, 2}
            /\ Merges(ret.out.log, f) = 2 => (f = resolve(ret.key[1]) /\ OnCycle(ret.world, f))

(***************************************************************************)
(* Selection: the entries of an event's section, filtered by tool and by   *)
(* changed files, resolved to callables and deduplicated by id.            *)
(***************************************************************************)
\* Text is a sequence of characters; str.lower() maps each character.
lower_char(c) ==
    CASE c = "A" -> "a" [] c = "D" -> "d" [] c = "E" -> "e" [] c = "H" -> "h"
      [] c = "P" -> "p" [] c = "S" -> "s" [] c = "T" -> "t" [] c = "Y" -> "y"
      [] OTHER -> c

to_lower(text) == [i \in 1..Len(text) |-> lower_char(text[i])]

\* str.lstrip('.')
RECURSIVE lstrip_dots(_)
lstrip_dots(text) ==
    IF text # <<>> /\ Head(text) = "." THEN lstrip_dots(Tail(text)) ELSE text

\* _ext: p.lower().rsplit('.', 1)[-1] if '.' in p else ''
ext_of(path) ==
    LET p == to_lower(path)
        dots == {i \in 1..Len(p) : p[i] = "."}
    IN  IF dots = {} THEN <<>>
        ELSE SubSeq(p, (CHOOSE i \in dots : \A j \in dots : j <= i) + 1, Len(p))

\* A reference "module" or "module:attr", and an id, which is text of the
\* same form: ref.partition(":").
Ref(module, attr) == [module |-> module, sep |-> TRUE, attr |-> attr]
Bare(module) == [module |-> module, sep |-> FALSE, attr |-> ""]
NoText1 == Bare("")

\* What the interpreter can import: the modules and their callables, and
\* the entry points of the group xenohooks.tasks.
Modules == [m |-> {"run", "f"}, n |-> {"g"}]
EntryPoints == {"plug"}

TaskFn(ref) == [kind |-> "task", ref |-> ref]
MissingTask(ref) == [kind |-> "missing", ref |-> ref]

\* _resolve_callable_from_ref: the id and the callable, or the import error
\* raised again when no entry point has the reference's name.
resolve_callable_from_ref(ref) ==
    IF ref.module \in DOMAIN Modules /\ ref.sep /\ ref.attr \in Modules[ref.module]
    THEN [ok |-> TRUE, id |-> ref, fn |-> TaskFn(ref)]
    ELSE IF ref.module \in DOMAIN Modules /\ ~ref.sep /\ "run" \in Modules[ref.module]
    THEN [ok |-> TRUE, id |-> Ref(ref.module, "run"), fn |-> TaskFn(Ref(ref.module, "run"))]
    ELSE IF ~ref.sep /\ ref.module \in EntryPoints
    THEN [ok |-> TRUE, id |-> Ref("ep", ref.module), fn |-> TaskFn(ref)]
    ELSE [ok |-> FALSE, id |-> ref, fn |-> MissingTask(ref)]

\* The placeholder of _wrap_missing_task, called.
NotAvailable(ref) ==
    [block |-> FALSE, end_turn |-> FALSE, reason |-> [text |-> "Task not available", ref |-> ref],
     task_id |-> ref]

\* An entry of a section: the string "ref", the mapping {id, ref, tools,
\* file_types, timeout, params}, or something else.  A key that is absent
\* or holds no list is NoList.
NoList == [list |-> FALSE, items |-> <<>>]
AllowList(items) == [list |-> TRUE, items |-> items]
TaskEntry(id, ref, tools, file_types, timeout, params) ==
    [shape |-> "dict", id |-> id, ref |-> ref, tools |-> tools, file_types |-> file_types,
     timeout |-> timeout, params |-> params]
StringEntry(ref) ==
    [shape |-> "str", id |-> NoText1, ref |-> ref, tools |-> NoList, file_types |-> NoList,
     timeout |-> 0, params |-> ""]
NumberEntry ==
    [shape |-> "other", id |-> NoText1, ref |-> NoText1, tools |-> NoList, file_types |-> NoList,
     timeout |-> 0, params |-> ""]

NoDescriptor == [none |-> TRUE]
TaskDescriptor(id, fn, timeout_seconds, params) ==
    [id |-> id, fn |-> fn, timeout_seconds |-> timeout_seconds, params |-> params]

resolved_entry_or_none(entry) ==
    IF entry.shape = "other" \/ entry.ref = NoText1 THEN NoDescriptor
    ELSE LET r == resolve_callable_from_ref(entry.ref) IN
         IF r.ok
         THEN TaskDescriptor(IF entry.id # NoText1 THEN entry.id ELSE r.id, r.fn,
                             IF entry.timeout > 0 THEN entry.timeout ELSE 0, entry.params)
         ELSE NoDescriptor

\* _parse_task_entry with the descriptor _dedupe_descriptors makes of it:
\* None for an entry without a reference; the placeholder, under the
\* entry's id or else the reference and without params, when the reference
\* does not resolve.  A timeout that is not positive is None (0).
resolved_entry(entry) ==
    IF entry.shape = "other" \/ entry.ref = NoText1 THEN NoDescriptor
    ELSE LET r == resolve_callable_from_ref(entry.ref)
             timeout == IF entry.timeout > 0 THEN entry.timeout ELSE 0
             friendly_id == IF entry.shape = "dict" THEN entry.id ELSE NoText1
         IN  IF r.ok
             THEN TaskDescriptor(IF friendly_id # NoText1 THEN friendly_id ELSE r.id, r.fn,
                                 timeout, IF entry.shape = "dict" THEN entry.params ELSE "")
             ELSE TaskDescriptor(IF friendly_id # NoText1 THEN friendly_id ELSE entry.ref,
                                 r.fn, timeout, "")

tools_pass_as_written(entry, tool_name) ==
    IF entry.shape = "dict" /\ entry.tools.list /\ entry.tools.items # <<>>
    THEN tool_name # <<>> /\ tool_name \in Range(entry.tools.items)
    ELSE TRUE

\* The tools filter of select_tasks: TRUE when the entry goes on.
tools_pass(entry, tool_name) ==
    IF entry.shape = "dict" /\ entry.tools.list /\ entry.tools.items # <<>>
    THEN /\ tool_name # <<>>
         /\ to_lower(tool_name) \in {to_lower(t) : t \in Range(entry.tools.items)}
    ELSE TRUE

file_types_pass_without_files(entry, files) ==
    IF entry.shape = "dict" /\ entry.file_types.list /\ entry.file_types.items # <<>>
    THEN \A fp \in Range(files) :
            ext_of(fp) \in {lstrip_dots(to_lower(ft)) : ft \in Range(entry.file_types.items)}
    ELSE TRUE

\* The file_types filter of select_tasks.
file_types_pass(entry, files) ==
    IF entry.shape = "dict" /\ entry.file_types.list /\ entry.file_types.items # <<>>
    THEN /\ files # <<>>
         /\ \E fp \in Range(files) :
                ext_of(fp) \in {lstrip_dots(to_lower(ft)) : ft \in Range(entry.file_types.items)}
    ELSE TRUE

\* _dedupe_descriptors: the first descriptor of each id, in order.
RECURSIVE dedupe(_, _)
dedupe(items, out) ==
    IF items = <<>> THEN out
    ELSE dedupe(Tail(items),
                IF \E i \in 1..Len(out) : out[i].id = Head(items).id
                THEN out ELSE Append(out, Head(items)))

\* The loop of select_tasks over the entries of the section.
RECURSIVE select_items(_, _, _)
select_items(entries, tool_name, files) ==
    IF entries = <<>> THEN <<>>
    ELSE LET entry == Head(entries)
             rest == select_items(Tail(entries), tool_name, files)
         IN  IF tools_pass(entry, tool_name) /\ file_types_pass(entry, files)
                 /\ resolved_entry(entry) # NoDescriptor
             THEN <<resolved_entry(entry)>> \o rest
             ELSE rest

select(entries, tool_name, files) == dedupe(select_items(entries, tool_name, files), <<>>)

\* main: the changed files are collected for PostToolUse only.
changed_files(event, collected) == IF event = "PostToolUse" THEN collected ELSE <<>>

MaxSelected == 2        \* entries in the section select is given

ToolNames == {<<>>, <<"s", "h">>, <<"S", "H">>, <<"e", "d">>}

\* a.py, A.PY, py (no extension), a.py/b (a directory with a dot) and a.ts
Paths ==
    {<<"a", ".", "p", "y">>, <<"A", ".", "P", "Y">>, <<"p", "y">>,
     <<"a", ".", "p", "y", "/", "b">>, <<"a", ".", "t", "s">>}
FileLists ==
    {<<>>} \cup {<<p>> : p \in Paths}
        \cup {<<<<"a", ".", "t", "s">>, <<"A", ".", "P", "Y">>>>}

ToolsSh == AllowList(<<<<"S", "h">>>>)
ToolsEdSh == AllowList(<<<<"E", "d">>, <<"s", "h">>>>)
TypesPy == AllowList(<<<<"p", "y">>>>)
TypesDotPyTs == AllowList(<<<<".", "P", "Y">>, <<"t", "s">>>>)

\* "m:f", "gone", "plug", 7, and the mappings with filters, ids, a
\* reference that does not resolve, or no reference at all.
SelectPool ==
    {StringEntry(Ref("m", "f")), StringEntry(Bare("gone")), StringEntry(Bare("plug")),
     NumberEntry,
     TaskEntry(NoText1, Bare("m"), ToolsSh, NoList, 0, ""),
     TaskEntry(NoText1, Ref("m", "run"), ToolsEdSh, AllowList(<<>>), 20, "p1"),
     TaskEntry(Bare("X"), Ref("gone", "f"), NoList, TypesPy, 20, "p2"),
     TaskEntry(Bare("X"), Ref("m", "f"), ToolsSh, TypesDotPyTs, 0, ""),
     TaskEntry(NoText1, Bare("n"), AllowList(<<>>), TypesDotPyTs, 0, ""),
     TaskEntry(NoText1, Ref("gone", "f"), ToolsEdSh, NoList, 0, "p3"),
     TaskEntry(NoText1, NoText1, ToolsSh, TypesPy, 0, "")}

SelectEvents == {"PostToolUse", "PreToolUse"}

SelectInputs(n) ==
    {Args("select_tasks", <<event, entries, tool_name, collected>>) :
        event \in SelectEvents, entries \in Lists(SelectPool, n),
        tool_name \in ToolNames, collected \in FileLists}

\* main's call of select_tasks for the event.
Select ==
    /\ Called("select_tasks")
    /\ \E files \in {changed_files(ret.args[1], ret.args[4])} :
          ret' = [op |-> "select_tasks", event |-> ret.args[1], entries |-> ret.args[2],
                  tool_name |-> ret.args[3], collected |-> ret.args[4], files |-> files,
                  out |-> select(ret.args[2], ret.args[3], files)]
    /\ UNCHANGED <<diskVars, now, fbVars, qVars, runVars>>

SelectInit == Idle(SelectInputs(MaxSelected))
SelectNext == Select
SpecSelect == SelectInit /\ [][SelectNext]_vars

Selected(r) == r.op = "select_tasks"

\* The list without its i-th entry.
Without(seq, i) == SubSeq(seq, 1, i - 1) \o SubSeq(seq, i + 1, Len(seq))

\* The entry is excluded: select returns what it returns without the entry.
Excluded(r, i) == r.out = select(Without(r.entries, i), r.tool_name, r.files)

\* The entry is included: a descriptor of its id is returned, the entry's
\* own when no earlier descriptor has the id.
Included(r, i) ==
    LET d == resolved_entry(r.entries[i])
        earlier == select(SubSeq(r.entries, 1, i - 1), r.tool_name, r.files)
    IN  /\ d # NoDescriptor
        /\ \E k \in 1..Len(r.out) : r.out[k].id = d.id
        /\ (\A k \in 1..Len(earlier) : earlier[k].id # d.id) => d \in Range(r.out)

HasTools(entry) == entry.shape = "dict" /\ entry.tools.list /\ entry.tools.items # <<>>
HasTypes(entry) == entry.shape = "dict" /\ entry.file_types.list /\ entry.file_types.items # <<>>

\* Two texts that differ in letter case only.
SameLetters(a, b) ==
    /\ Len(a) = Len(b)
    /\ \A i \in 1..Len(a) : lower_char(a[i]) = lower_char(b[i])

ToolListed(entry, tool_name) ==
    tool_name # <<>> /\ \E t \in Range(entry.tools.items) : SameLetters(t, tool_name)

\* The path ends in a dot and the extension, in any letter case; a leading
\* dot of the listed extension does not count.
HasExtension(path, ft) ==
    LET want == IF ft # <<>> /\ Head(ft) = "." THEN Tail(ft) ELSE ft IN
    /\ Len(path) > Len(want)
    /\ path[Len(path) - Len(want)] = "."
    /\ SameLetters(SubSeq(path, Len(path) - Len(want) + 1, Len(path)), want)

TypeListed(entry, files) ==
    \E fp \in Range(files) : \E ft \in Range(entry.file_types.items) : HasExtension(fp, ft)

\* C21: an entry with a non-empty tools list is excluded when the tool name
\* is empty or is none of the listed names in any letter case, and is
\* included, when it names a reference and passes the file filter, when
\* the tool name is one of them in any letter case.
C21_ToolsFilter ==
    Selected(ret) =>
        \A i \in 1..Len(ret.entries) :
            HasTools(ret.entries[i]) =>
                /\ ~ToolListed(ret.entries[i], ret.tool_name) => Excluded(ret, i)
                /\ (/\ ToolListed(ret.entries[i], ret.tool_name)
                    /\ ret.entries[i].ref # NoText1
                    /\ (HasTypes(ret.entries[i]) => TypeListed(ret.entries[i], ret.files)))
                        => Included(ret, i)

\* Reached: the tool named SH selects an entry listing Sh and leaves out
\* nothing of it, and the tool named ed leaves the same entry out.
C21_Witness ==
    /\ Selected(ret)
    /\ ret.tool_name = <<"S", "H">>
    /\ \E i \in 1..Len(ret.entries) :
          /\ ret.entries[i].tools = ToolsSh
          /\ Included(ret, i) /\ ~Excluded(ret, i)

\* Reached: an entry left out because the tool is another or is not named.
C21_Reach_LeftOut ==
    /\ Selected(ret)
    /\ ret.tool_name \in {<<>>, <<"e", "d">>}
    /\ \E i \in 1..Len(ret.entries) :
          /\ ret.entries[i].tools = ToolsSh /\ ret.entries[i].ref # NoText1
          /\ ~HasTypes(ret.entries[i])
          /\ Excluded(ret, i) /\ Len(ret.out) < Len(ret.entries)

\* C22: an entry with a non-empty file_types list is excluded when no
\* changed file has one of the listed extensions, in any letter case and
\* with a leading dot ignored; so it is when there is no changed file, as
\* for every event other than PostToolUse.
C22_FileTypesFilter ==
    Selected(ret) =>
        /\ ret.event # "PostToolUse" => ret.files = <<>>
        /\ \A i \in 1..Len(ret.entries) :
              (HasTypes(ret.entries[i]) /\ ~TypeListed(ret.entries[i], ret.files))
                  => Excluded(ret, i)

\* Reached: before a tool runs, an entry for py files is left out though
\* the payload names a.py, and the entry would be selected without its
\* file_types.
C22_Witness ==
    /\ Selected(ret)
    /\ ret.event = "PreToolUse" /\ ret.collected = <<<<"a", ".", "p", "y">>>>
    /\ \E i \in 1..Len(ret.entries) :
          /\ ret.entries[i].file_types = TypesPy /\ ret.entries[i].ref # NoText1
          /\ Excluded(ret, i)
          /\ select(<<[ret.entries[i] EXCEPT !.file_types = NoList]>>, ret.tool_name, ret.files)
                 # <<>>

\* Reached: after a tool changed A.PY, an entry for py files is selected,
\* and after a change of a.py/b or of py it is not.
C22_Reach_AnyCase ==
    /\ Selected(ret)
    /\ ret.files = <<<<"A", ".", "P", "Y">>>>
    /\ \E i \in 1..Len(ret.entries) :
          /\ ret.entries[i].file_types = TypesPy
          /\ Included(ret, i) /\ ~Excluded(ret, i)

C22_Reach_NoExtension ==
    /\ Selected(ret)
    /\ ret.files \in {<<<<"p", "y">>>>, <<<<"a", ".", "p", "y", "/", "b">>>>}
    /\ \E i \in 1..Len(ret.entries) :
          /\ ret.entries[i].file_types = TypesPy /\ ret.entries[i].ref # NoText1
          /\ Excluded(ret, i)

\* The entry goes through both filters.
Passes(r, i) ==
    /\ tools_pass(r.entries[i], r.tool_name)
    /\ file_types_pass(r.entries[i], r.files)

Unresolved(entry) ==
    /\ entry.shape # "other" /\ entry.ref # NoText1
    /\ ~resolve_callable_from_ref(entry.ref).ok

\* What the descriptor's callable returns when it is called.
Call(fn) == IF fn.kind = "missing" THEN <<NotAvailable(fn.ref)>> ELSE <<>>

\* C23: a reference that does not resolve does not end selection: a
\* descriptor is returned for the entry under the entry's id, else the
\* reference, whose callable returns one non-blocking outcome naming the
\* reference, and every other entry has its descriptor as it is.
C23_MissingTaskPlaceholder ==
    Selected(ret) =>
        \A i \in 1..Len(ret.entries) :
            (Passes(ret, i) /\ Unresolved(ret.entries[i])) =>
                LET entry == ret.entries[i]
                    id == IF entry.shape = "dict" /\ entry.id # NoText1
                          THEN entry.id ELSE entry.ref
                    earlier == select(SubSeq(ret.entries, 1, i - 1), ret.tool_name, ret.files)
                IN  /\ \E k \in 1..Len(ret.out) : ret.out[k].id = id
                    /\ (\A k \in 1..Len(earlier) : earlier[k].id # id) =>
                          \E k \in 1..Len(ret.out) :
                              /\ ret.out[k].id = id
                              /\ Len(Call(ret.out[k].fn)) = 1
                              /\ ~Call(ret.out[k].fn)[1].block
                              /\ ~Call(ret.out[k].fn)[1].end_turn
                              /\ Call(ret.out[k].fn)[1].reason.ref = entry.ref
                    /\ \A j \in 1..Len(ret.entries) :
                          (j # i /\ Passes(ret, j) /\ resolved_entry(ret.entries[j]) # NoDescriptor)
                              => Included(ret, j)

\* Reached: a reference that does not resolve, before one that does; both
\* have their descriptors, the first the placeholder under the entry's id.
C23_Witness ==
    /\ Selected(ret)
    /\ Len(ret.entries) = 2 /\ Len(ret.out) = 2
    /\ Unresolved(ret.entries[1]) /\ ~Unresolved(ret.entries[2])
    /\ ret.out[1].fn.kind = "missing" /\ ret.out[2].fn.kind = "task"
    /\ ret.out[1].id = Bare("X")

(***************************************************************************)
(* Claims about the advisory text of a response.                           *)
(***************************************************************************)
MaxAdvisories == 2      \* outcomes with advisory text in one invocation

\* An advisory of n lines.
Verbose(task, head, n) ==
    [Action EXCEPT !.add_context = [head |-> head, tail |-> "", lines |-> n], !.task_id = task]

\* Advisories of 2, 49 and 50 lines.
VerbosePool ==
    {Verbose("sec", "warn y", 2), Verbose("lint", "warn y", max_lines - 1),
     Verbose("sec", "warn x", max_lines)}

ContextEvents == {"PreToolUse", "PostToolUse", "SessionEnd"}

ContextNext ==
    \E event \in ContextEvents, results \in Lists(VerbosePool, MaxAdvisories) :
        InvokeTasks(event, <<>>, results)

SpecContext == RouterInit /\ [][ContextNext]_vars

\* The advisory text of a response.
AdvisoryText(response) ==
    IF response.hookSpecificOutput.permissionDecision = "allow"
    THEN response.hookSpecificOutput.permissionDecisionReason
    ELSE response.hookSpecificOutput.additionalContext

\* The advisories an invocation shows: all of them, and after a tool ran
\* the first of each issue the response includes.
Shown(r) ==
    LET adds == adds_of(r.results, r.block_on)
        first(k) == \A j \in 1..(k - 1) : issue_of(adds[j]) # issue_of(adds[k])
        at == {k \in 1..Len(adds) :
                 r.event = "PostToolUse" => (issue_of(adds[k]) \in r.included /\ first(k))}
    IN  [k \in 1..Len(adds) |-> IF k \in at THEN text_of(adds[k].add_context) ELSE <<>>]

RECURSIVE Concat(_)
Concat(texts) == IF texts = <<>> THEN <<>> ELSE Head(texts) \o Concat(Tail(texts))

OmittedNote(k) == "... (" \o ToString(k) \o " more lines truncated for brevity)"

\* C24: the advisory text of a response has at most max_lines (50) lines
\* of content: a merged text of n > 50 lines is cut to its first 50 lines
\* and a note that n - 50 lines were left out, and a merged text of up to
\* 50 lines is given whole.
C24_AdvisoryTextBounded ==
    (Mapped(ret) /\ AdvisoryText(ret.response) # <<>>) =>
        LET merged == Concat(Shown(ret))
            text == AdvisoryText(ret.response)
        IN  IF Len(merged) > max_lines
            THEN /\ SubSeq(text, 1, max_lines) = SubSeq(merged, 1, max_lines)
                 /\ SubSeq(text, max_lines + 1, Len(text))
                        = <<"", OmittedNote(Len(merged) - max_lines)>>
            ELSE text = merged

\* Reached: advisories of 49 and 2 lines give 50 lines and the note that
\* one line was left out.
C24_Witness ==
    /\ Mapped(ret)
    /\ Len(ret.results) = 2
    /\ Len(Concat(Shown(ret))) = max_lines + 1
    /\ Len(AdvisoryText(ret.response)) = max_lines + 2
    /\ AdvisoryText(ret.response)[max_lines + 2] = OmittedNote(1)

\* Reached: exactly 50 lines are given whole.
C24_Reach_FiftyWhole ==
    /\ Mapped(ret)
    /\ Len(Concat(Shown(ret))) = max_lines
    /\ AdvisoryText(ret.response) = Concat(Shown(ret))

(***************************************************************************)
(* Claims about the response before a tool runs.                           *)
(***************************************************************************)
AsksToEnd(r) == \E k \in 1..Len(r.results) : r.results[k].end_turn

\* C25: before a tool runs, whenever an outcome asks for the end of the
\* turn the response is {"continue": false, "stopReason": ...}; otherwise
\* it has continue true and, when it has a hookSpecificOutput, a
\* permissionDecision of deny, allow or ask.
C25_PreToolUseStopsOrDecides ==
    (Mapped(ret) /\ ret.event = "PreToolUse") =>
        IF AsksToEnd(ret)
        THEN /\ ret.response.continue = "false"
             /\ ret.response.stopReason # <<>>
        ELSE /\ ret.response.continue = "true"
             /\ ret.response.hookSpecificOutput # NoOutput =>
                   ret.response.hookSpecificOutput.permissionDecision \in {"deny", "allow", "ask"}

\* Reached: an outcome asks for the end of the turn beside a block, and the
\* response denies the tool with continue true.
C25_Reach_DenyBesideEnd ==
    /\ Mapped(ret) /\ ret.event = "PreToolUse"
    /\ ret.block_on = <<>>
    /\ ret.results = <<ender, blocker>>
    /\ ret.response.continue = "true"
    /\ ret.response.hookSpecificOutput.permissionDecision = "deny"

\* Reached: without a block, the request ends the turn.
C25_Reach_EndAlone ==
    /\ Mapped(ret) /\ ret.event = "PreToolUse"
    /\ ret.results = <<ender, denier>>
    /\ ret.response.continue = "false"

\* Without a block among the outcomes the claim holds.
C25_Aside_WithoutBlocks ==
    (Mapped(ret) /\ ret.event = "PreToolUse" /\ blocks_of(ret.results, ret.block_on) = <<>>) =>
        IF AsksToEnd(ret)
        THEN /\ ret.response.continue = "false"
             /\ ret.response.stopReason # <<>>
        ELSE /\ ret.response.continue = "true"
             /\ ret.response.hookSpecificOutput # NoOutput =>
                   ret.response.hookSpecificOutput.permissionDecision \in {"deny", "allow", "ask"}

(***************************************************************************)
(* Recording one issue again and again.                                    *)
(***************************************************************************)
MaxStreak == 3          \* records of one issue in a row

\* What has been recorded of an issue since its row was last begun: how
\* many times, when first and when last.
Streak(before, t) ==
    IF before # NoPrev /\ t - before.last <= DEFAULT_DEDUP_WINDOW
    THEN [n |-> before.n + 1, first |-> before.first, last |-> t]
    ELSE [n |-> 1, first |-> t, last |-> t]

\* record_feedback(content, task, file, strategy) once more.
RecordAgain(content, task, file, strategy) ==
    LET id == issue_id(task, file, content) IN
    /\ Streak(prev[id], now).n <= MaxStreak
    /\ fb' = record_store(fb, content, task, file, None, None, strategy, now)
    /\ prev' = [prev EXCEPT ![id] = Streak(prev[id], now)]
    /\ ret' = [op |-> "record", issue |-> id, content |-> content,
               item |-> record_item(fb, content, task, file, None, None, strategy, now),
               old |-> fb[id]]
    /\ UNCHANGED <<diskVars, now, qVars, runVars>>

\* mark_shown(issue_id) between two records.
MarkAgain(id) ==
    /\ fb[id] # NoRow
    /\ fb[id].times_shown < MaxCount
    /\ fb' = mark_shown(fb, id)
    /\ ret' = [op |-> "mark_shown", issue |-> id]
    /\ UNCHANGED <<diskVars, now, prev, qVars, runVars>>

\* One task; a text and a longer one with the same first 100 characters;
\* two files of one name.
StreakContents == {[head |-> "warn x", tail |-> ""], [head |-> "warn x", tail |-> "more"]}
StreakFiles == {[dir |-> "a", name |-> "f.py"], [dir |-> "b", name |-> "f.py"]}

StreakNext ==
    \/ \E d \in TickSteps : Tick(d, MaxTime)
    \/ \E content \in StreakContents, file \in StreakFiles :
          RecordAgain(content, "lint", file, "show_once")
    \/ \E file \in StreakFiles : MarkAgain(issue_id("lint", file, [head |-> "warn x", tail |-> ""]))
    \/ CleanupSession

SpecStreak == FbInit /\ [][StreakNext]_vars

\* C26: recording one issue n times in a row without an expiry in between
\* leaves one row for it with occurrence_count n, first_seen the time of
\* the first record, last_seen the time of the last, and the times_shown
\* it had; three records give occurrence_count 3.
C26_RecordCounts ==
    ret.op = "record" =>
        LET row == fb[ret.issue]
            streak == prev[ret.issue]
        IN  /\ row # NoRow
            /\ row = ret.item
            /\ row.occurrence_count = streak.n
            /\ row.first_seen = streak.first
            /\ row.last_seen = streak.last /\ row.last_seen = now
            /\ row.times_shown = IF streak.n = 1 THEN 0 ELSE ret.old.times_shown
            /\ row.content = ret.content

\* Reached: three records of one issue at three times, under two paths of
\* one file name, shown once in between.
C26_Witness ==
    /\ ret.op = "record"
    /\ fb[ret.issue].occurrence_count = 3
    /\ fb[ret.issue].first_seen = 0
    /\ fb[ret.issue].last_seen = 300
    /\ fb[ret.issue].times_shown = 1
    /\ ret.issue = issue_id("lint", [dir |-> "a", name |-> "f.py"], [head |-> "warn x", tail |-> ""])

\* Reached: a record after the row expired begins again at 1.
C26_Reach_BeginsAgain ==
    /\ ret.op = "record"
    /\ ret.old # NoRow /\ ret.old.occurrence_count = 2
    /\ fb[ret.issue].occurrence_count = 1
    /\ fb[ret.issue].first_seen = now

(***************************************************************************)
(* Claims about poll, harvest and spawn.                                   *)
(***************************************************************************)
\* A running row whose time is not up.
InTime(row, t) == row.status = "running" /\ ~(t - row.started_at > row.timeout)

\* C27: of a running task whose time is not up, poll leaves the row as it
\* is while the process exists; once the process is gone, poll stores the
\* captured output and sets completed with exit_code 0 iff the captured
\* stderr is empty, failed with exit_code 1 iff it is not.
C27_PollClassifies ==
    [][ret'.op = "poll" =>
          \A id \in TaskIds :
              (q[id] # NoTask /\ InTime(q[id], now)) =>
                  IF procs[id].state = "alive"
                  THEN q'[id] = q[id]
                  ELSE /\ q'[id].stdout = procs[id].stdout
                       /\ q'[id].stderr = procs[id].stderr
                       /\ q'[id].completed_at = now
                       /\ q'[id].status \in {"completed", "failed"}
                       /\ (q'[id].status = "completed" /\ q'[id].exit_code = 0)
                              <=> procs[id].stderr = ""
                       /\ (q'[id].status = "failed" /\ q'[id].exit_code = 1)
                              <=> procs[id].stderr # ""
                       /\ id \in Range(ret'.ids)]_vars

\* Reached: one poll finds a process gone that wrote to stderr, and
\* another process still there.
C27_Witness ==
    /\ ret.op = "poll"
    /\ \E id, other \in TaskIds :
          /\ q[id] # NoTask /\ q[other] # NoTask
          /\ q[id].status = "failed" /\ q[id].exit_code = 1 /\ q[id].stderr = "err"
          /\ q[id].error = NoError
          /\ q[other].status = "running" /\ procs[other].state = "alive"

\* Reached: a process gone without a word on stderr is completed.
C27_Reach_Completed ==
    /\ ret.op = "poll"
    /\ \E id \in TaskIds :
          /\ q[id] # NoTask
          /\ q[id].status = "completed" /\ q[id].exit_code = 0
          /\ q[id].stdout = "json_feedback" /\ q[id].stderr = ""

\* n characters of output.
RECURSIVE Chars(_)
Chars(n) == IF n = 0 THEN "" ELSE IF n % 2 = 0 THEN Chars(n \div 2) \o Chars(n \div 2)
            ELSE "x" \o Chars(n - 1)

\* What the children write before they exit: nothing, structured feedback of
\* one, two and no items, a feedback list of a bare string, more than 500
\* characters on stdout or on stderr, and structured feedback beside stderr.
HarvestRuns ==
    {<<"", "", TRUE>>, <<"json_feedback", "", TRUE>>, <<"json_two", "", TRUE>>,
     <<"json_empty", "", TRUE>>, <<"json_words", "", TRUE>>,
     <<Chars(501), "", TRUE>>, <<"", Chars(501), TRUE>>, <<"json_feedback", "err", TRUE>>}

HarvestInputs == {<<"run", 60>>, <<"empty", 61>>}

HarvestNext ==
    \/ \E d \in QTickSteps : Tick(d, QMaxTime)
    \/ \E in \in HarvestInputs : Enqueue(in[1], in[2])
    \/ Spawn
    \/ \E id \in TaskIds, r \in HarvestRuns : ProcStep(id, r[1], r[2], r[3])
    \/ Poll
    \/ Harvest

SpecHarvest == QInit /\ [][HarvestNext]_vars

Finished(row) == row # NoTask /\ row.status \in {"completed", "failed"}

\* stdout holds an object with a feedback list that has an item.
Structured(row) ==
    LET data == json_loads(row.stdout) IN data.json /\ data.feedback # <<>>

\* The raw output a summary is made of, and how the summary begins.
RawOf(row) ==
    IF row.exit_code = 0 THEN row.stdout
    ELSE IF row.error # NoError THEN error_text(row.error)
    ELSE IF row.stderr \notin {None, ""} THEN row.stderr
    ELSE "Unknown error"
PrefixOf(row) ==
    IF row.exit_code = 0 THEN "Background task completed: " ELSE "Background task failed: "

\* The value a finished row is to yield: the first item of its structured
\* feedback; otherwise the summary of its raw output, none for a task that
\* succeeded without output.
Yield(row) ==
    IF Structured(row)
    THEN LET first == json_loads(row.stdout).feedback[1] IN
         IF first.dict THEN <<first.content>> ELSE <<>>
    ELSE IF row.exit_code = 0 /\ row.stdout \in {None, ""} THEN <<>>
    ELSE <<PrefixOf(row) \o SubSeq(RawOf(row), 1, Min(500, Len(RawOf(row))))>>

RECURSIVE Yields(_, _)
Yields(rows, order) ==
    IF order = <<>> THEN <<>> ELSE Yield(rows[Head(order)]) \o Yields(rows, Tail(order))

Texts(feedback) ==
    [i \in 1..Len(feedback) |-> feedback[i].content.head \o feedback[i].content.tail]

\* What the claim says of one harvest from rows `before` to rows `after`.
Consumes(before, after, r) ==
    /\ \A id \in TaskIds :
          IF id \in Range(r.rows) THEN after[id] = NoTask ELSE after[id] = before[id]
    /\ \A id \in TaskIds : Finished(before[id]) => id \in Range(r.rows)
    /\ Len(r.feedback) <= Len(r.rows)
    /\ Texts(r.feedback) = Yields(before, r.rows)
    /\ \A i \in 1..Len(r.feedback) : Len(Texts(r.feedback)[i]) <= 500 + 27
    /\ \A order \in CompletedOrders(after) :
          /\ Range(order) \cap Range(r.rows) = {}
          /\ process_completed_rows([q |-> after, feedback |-> <<>>], order).feedback = <<>>

\* C28: harvest deletes every completed or failed row it processes, with or
\* without a feedback value, leaves pending and running rows as they are,
\* yields at most one value per row (the structured feedback of stdout, else
\* a summary of the raw output cut to 500 characters), and a second harvest
\* right after returns nothing for these rows.
C28_HarvestConsumes ==
    [][ret'.op = "harvest" => Consumes(q, q', ret')]_vars

\* Reached: a finished row whose feedback list holds a bare string is still
\* there after the harvest.
C28_Reach_RowStays ==
    /\ ret.op = "harvest"
    /\ ret.raised
    /\ \E id \in Range(ret.rows) :
          /\ Finished(q[id])
          /\ q[id].stdout = "json_words"

\* Reached: a row was deleted in that harvest and its feedback went with it.
C28_Reach_FeedbackLost ==
    /\ ret.op = "harvest"
    /\ ret.raised
    /\ ret.feedback = <<>>
    /\ \E id \in Range(ret.rows) : q[id] = NoTask

\* Reached: a summary of 500 characters of a longer output.
C28_Reach_Truncated ==
    /\ ret.op = "harvest"
    /\ \E i \in 1..Len(ret.feedback) :
          Texts(ret.feedback)[i] = "Background task completed: " \o Chars(500)

\* Reached: one harvest deletes a row that yields nothing and a row that
\* yields the first of two items.
C28_Reach_WithAndWithout ==
    /\ ret.op = "harvest"
    /\ ~ret.raised
    /\ Len(ret.rows) = 2
    /\ Texts(ret.feedback) = <<"first">>
    /\ \A id \in Range(ret.rows) : q[id] = NoTask

\* Reached: a harvest of one row beside a row that is running.
C28_Reach_BesideRunning ==
    /\ ret.op = "harvest"
    /\ Len(ret.rows) = 1
    /\ \E id \in TaskIds : q[id] # NoTask /\ q[id].status = "running"

\* As long as no processed row holds a bare string as its first item, the
\* harvest is as C28 says.
C28_Aside_ObjectItems ==
    [][(/\ ret'.op = "harvest"
        /\ \A id \in TaskIds : Finished(q[id]) => q[id].stdout # "json_words")
          => Consumes(q, q', ret')]_vars

Pending(row) == row # NoTask /\ row.status = "pending"

\* C29: spawn takes the pending tasks oldest first: no pending task leaves
\* the pending status while a task created earlier is pending afterwards; a
\* pending task without a command that spawn takes is marked failed with an
\* error, and no task without a command ever has a process id or the
\* running status.
C29_SpawnOldestFirst ==
    [][/\ ret'.op = "spawn" =>
            /\ \A a, b \in TaskIds :
                  (/\ Pending(q[a]) /\ Pending(q[b])
                   /\ q[a].created_at < q[b].created_at
                   /\ q'[b].status # "pending") => q'[a].status # "pending"
            /\ \A a \in TaskIds :
                  (Pending(q[a]) /\ q[a].command = "empty" /\ q'[a] # q[a]) =>
                      /\ q'[a].status = "failed"
                      /\ q'[a].error = ErrorText("No command specified")
                      /\ q'[a].completed_at = now
                      /\ a \notin Range(ret'.ids)
       /\ \A a \in TaskIds :
             (q'[a] # NoTask /\ q'[a].command = "empty") =>
                 /\ q'[a].pid = NoPid
                 /\ q'[a].started_at = NoTime
                 /\ q'[a].status \in {"pending", "failed"}
                 /\ procs'[a] = NoProc]_vars

\* Reached: with one free slot and two pending tasks of different age, spawn
\* has started the older and left the younger pending.
C29_Witness ==
    /\ ret.op = "spawn"
    /\ \E a, b \in TaskIds :
          /\ q[a] # NoTask /\ q[b] # NoTask
          /\ q[a].created_at < q[b].created_at
          /\ q[a].status = "running" /\ q[a].started_at = now
          /\ ret.ids = <<a>>
          /\ Pending(q[b])

\* Reached: spawn has marked a task without a command failed and started
\* the younger task in the same call.
C29_Reach_NoCommand ==
    /\ ret.op = "spawn"
    /\ \E a, b \in TaskIds :
          /\ q[a] # NoTask /\ q[b] # NoTask
          /\ q[a].created_at < q[b].created_at
          /\ q[a].command = "empty" /\ q[a].status = "failed" /\ q[a].completed_at = now
          /\ q[a].pid = NoPid
          /\ ret.ids = <<b>>

(***************************************************************************)
(* The remove list and the entries of one layer.                           *)
(***************************************************************************)
\* The inherited sections the layers are merged into: [A, B, C], the same
\* identities in another order, [D, B'] and no task.
LayerBases ==
    {BaseABC, DictSection(<<EntryC, EntryA, EntryB>>, <<>>),
     DictSection(<<StrEntry(Name("D")), EntryB2>>, <<>>), DictSection(<<>>, <<>>)}

LayerInit == Idle(MergeInputs(LayerBases))
LayerNext == MergeSections
SpecLayer == LayerInit /\ [][LayerNext]_vars

\* The identities whose last entry in the layer is disabled, and those
\* whose last entry is not.
LastDisabled(layer) == {k \in KeysIn(layer.tasks) : LastOf(layer.tasks, k).disabled}
LastGiven(layer) == {k \in KeysIn(layer.tasks) : ~LastOf(layer.tasks, k).disabled}

\* Inherited identities that the layer neither removes nor disables stay in
\* their order.
StableStay(a, layer, out) ==
    \A k \in Stable(a, layer) :
        /\ k \in KeysIn(out)
        /\ \A other \in Stable(a, layer) :
              Pos(a.tasks, k) < Pos(a.tasks, other) => Pos(out, k) < Pos(out, other)

\* C30: when a later layer is merged into an event section, its remove list
\* is applied to the inherited tasks before its own entries: an identity
\* listed in remove and also present as a non-disabled entry of the same
\* layer is in the result, an entry flagged disabled removes that identity
\* from the result, and the inherited identities the layer neither removes
\* nor disables stay in their order.
C30_RemoveBeforeEntries ==
    Merged(ret) =>
        /\ \A k \in RemovedBy(ret.b) \cap GivenBy(ret.b) : k \in KeysIn(ret.out.tasks)
        /\ \A k \in DisabledBy(ret.b) : k \notin KeysIn(ret.out.tasks)
        /\ StableStay(ret.a, ret.b, ret.out.tasks)

\* C30, amended: the last entry an identity has in the layer decides.  An
\* identity listed in remove whose last entry in the layer is not disabled
\* is in the result with that entry; an identity whose last entry in the
\* layer is disabled is not in the result; the inherited identities the
\* layer neither removes nor disables stay in their order.
C30_LastEntryDecides ==
    Merged(ret) =>
        /\ \A k \in RemovedBy(ret.b) \cap LastGiven(ret.b) :
              /\ k \in KeysIn(ret.out.tasks)
              /\ ret.out.tasks[Pos(ret.out.tasks, k)] = LastOf(ret.b.tasks, k)
        /\ \A k \in LastDisabled(ret.b) : k \notin KeysIn(ret.out.tasks)
        /\ StableStay(ret.a, ret.b, ret.out.tasks)

\* Reached: base [A, B, C] and a layer that removes B and holds B': the
\* result is [A, C, B'].
C30_Witness ==
    /\ Merged(ret) /\ ret.a = BaseABC
    /\ ret.b = DictSection(<<EntryB2>>, <<Name("B")>>)
    /\ ret.out.tasks = <<EntryA, EntryC, EntryB2>>

\* Reached: a layer that removes B, holds B and then disables B: B is not
\* in the result.
C30_Reach_DisabledLater ==
    /\ Merged(ret) /\ ret.a = BaseABC
    /\ ret.b = DictSection(<<EntryB, Disabled(NoName, Name("B"))>>, <<Name("B")>>)
    /\ ret.out.tasks = <<EntryA, EntryC>>

\* Reached: a layer that disables B and then holds B': B is in the result.
C30_Reach_GivenLater ==
    /\ Merged(ret) /\ ret.a = BaseABC
    /\ ret.b = DictSection(<<Disabled(NoName, Name("B")), EntryB2>>, <<>>)
    /\ ret.out.tasks = <<EntryA, EntryC, EntryB2>>

(***************************************************************************)
(* The queries of the FeedbackStore.                                       *)
(***************************************************************************)
\* The rows of a table.
RowsOf(store) == {store[i] : i \in {j \in DOMAIN store : store[j] # NoRow}}

\* The orders ORDER BY last_seen DESC and ORDER BY first_seen ASC may return
\* a set of rows in (rows with equal keys in any order).
Listings(rows, before(_, _)) ==
    LET n == Cardinality(rows) IN
    {o \in [1..n -> rows] :
        /\ \A i, j \in 1..n : i # j => o[i] # o[j]
        /\ \A i, j \in 1..n : i < j => before(o[i], o[j])}

\* get_feedback_summary: SELECT ... WHERE occurrence_count >= ? ORDER BY
\* last_seen DESC, after the purge.
get_feedback_summary(store, min_occurrences, t) ==
    Listings({r \in RowsOf(cleanup_expired(store, t)) : r.occurrence_count >= min_occurrences},
             LAMBDA a, b : a.last_seen >= b.last_seen)

\* get_deferred_feedback: SELECT ... WHERE strategy = 'defer' ORDER BY
\* first_seen ASC, after the purge.
get_deferred_feedback(store, t) ==
    Listings({r \in RowsOf(cleanup_expired(store, t)) : r.strategy = "defer"},
             LAMBDA a, b : a.first_seen <= b.first_seen)

Summary(min_occurrences) ==
    /\ \E rows \in get_feedback_summary(fb, min_occurrences, now) :
          ret' = [op |-> "summary", min |-> min_occurrences, rows |-> rows]
    /\ fb' = cleanup_expired(fb, now)
    /\ UNCHANGED <<diskVars, now, prev, qVars, runVars>>

Deferred ==
    /\ \E rows \in get_deferred_feedback(fb, now) :
          ret' = [op |-> "deferred", rows |-> rows]
    /\ fb' = cleanup_expired(fb, now)
    /\ UNCHANGED <<diskVars, now, prev, qVars, runVars>>

\* min_occurrences: 1, and the default 2.
Minimums == {1, 2}

QueryNext ==
    \/ \E d \in TickSteps : Tick(d, MaxTime)
    \/ \E in \in FbInputs \cup {FbFileInput}, st \in {"show_once", "defer"} :
         Record(in[1], "lint", in[2], st)
    \/ \E in \in FbInputs : MarkShown(issue_id("lint", in[2], in[1]))
    \/ \E m \in Minimums : Summary(m)
    \/ Deferred

SpecQueries == FbInit /\ [][QueryNext]_vars

\* C31: an item recorded with strategy defer is never reported as showable
\* by should_show_feedback, whatever its times_shown and occurrence_count,
\* and no query other than the deferred query returns it, the summary
\* included.
C31_DeferredOnlyByDeferred ==
    /\ (ret.op = "record" /\ ret.strategy = "defer") => ~should_show_feedback(ret.item)
    /\ ret.op = "summary" => \A i \in 1..Len(ret.rows) : ret.rows[i].strategy # "defer"

\* Reached: the summary returns a row of strategy defer that was recorded
\* twice.
C31_Reach_InSummary ==
    /\ ret.op = "summary"
    /\ ret.min = 2
    /\ \E i \in 1..Len(ret.rows) :
          ret.rows[i].strategy = "defer" /\ ret.rows[i].occurrence_count = 2

\* Reached: a record with defer of an issue whose row was inserted with
\* show_once returns an item that is showable.
C31_Reach_RowKeepsStrategy ==
    /\ ret.op = "record"
    /\ ret.strategy = "defer"
    /\ ret.item.strategy = "show_once"
    /\ ret.item.occurrence_count = 2
    /\ should_show_feedback(ret.item)

\* A row whose strategy is defer is never showable, and the deferred query
\* returns the rows of strategy defer that have not expired, oldest first.
C31_Aside_DeferRows ==
    /\ \A r \in RowsOf(fb) : r.strategy = "defer" => ~should_show_feedback(r)
    /\ ret.op = "deferred" =>
          /\ Range(ret.rows) = {r \in RowsOf(fb) : r.strategy = "defer"}
          /\ \A i, j \in 1..Len(ret.rows) :
                i < j => ret.rows[i].first_seen <= ret.rows[j].first_seen

\* Reached: the deferred query returns a row that was marked shown.
C31_Reach_Deferred ==
    /\ ret.op = "deferred"
    /\ \E i \in 1..Len(ret.rows) : ret.rows[i].times_shown > 0

(***************************************************************************)
(* A hard block before a tool runs.                                        *)
(***************************************************************************)
\* C32: before a tool runs, if any outcome is a hard block (its block flag
\* or a match of the policy), the response's permissionDecision is deny,
\* whatever the other outcomes: no pre-decision of allow or ask, no
\* advisory text and no request to end the turn replaces the deny.
C32_HardBlockDenies ==
    (/\ Mapped(ret) /\ ret.event = "PreToolUse"
     /\ \E k \in 1..Len(ret.results) : IsBlock(ret.results[k], ret.block_on)) =>
        /\ ret.response.hookSpecificOutput.hookEventName = "PreToolUse"
        /\ ret.response.hookSpecificOutput.permissionDecision = "deny"
        /\ ret.response.continue = "true"
        /\ ret.response.stopReason = <<>>
        /\ ret.response.decision = None

\* Reached: a pre-decision of allow stands before the block in the list
\* and the response denies.
C32_Witness ==
    /\ Mapped(ret) /\ ret.event = "PreToolUse"
    /\ ret.block_on = <<>>
    /\ ret.results = <<allower, blocker>>
    /\ ret.response.hookSpecificOutput.permissionDecision = "deny"
    /\ ret.response.hookSpecificOutput.permissionDecisionReason = <<"no">>

\* Reached: the block is a match of the policy by an advisory.
C32_Reach_PolicyBlock ==
    /\ Mapped(ret) /\ ret.event = "PreToolUse"
    /\ ret.block_on # <<>>
    /\ ret.results = <<advisory_sec>>
    /\ ~advisory_sec.block
    /\ ret.response.hookSpecificOutput.permissionDecision = "deny"
    /\ ret.response.hookSpecificOutput.permissionDecisionReason = <<"warn ymore">>

(***************************************************************************)
(* Advisories that are marked shown.                                       *)
(***************************************************************************)
\* The invocation has incremented times_shown of the issue's row: of the
\* row that was there before it, or of the row it has inserted.
MarkedShown(before, after, i, t) ==
    /\ i \in DOMAIN after
    /\ after[i] # NoRow
    /\ after[i].times_shown >
          (IF i \in DOMAIN before /\ before[i] # NoRow
                /\ before[i].first_seen = after[i].first_seen
           THEN before[i].times_shown ELSE 0)

\* The lines of the content are in the response's additionalContext.
Surfaced(response, content) ==
    \A k \in 1..Len(text_of(content)) :
        text_of(content)[k] \in Range(response.hookSpecificOutput.additionalContext)

\* What C33 says of one invocation.
ShownIsSurfaced(before, after, r, t) ==
    \A i \in DOMAIN after :
        MarkedShown(before, after, i, t) => Surfaced(r.response, after[i].content)

\* C33: in an invocation after a tool ran, every advisory whose row is
\* marked shown during the invocation is in the additionalContext of its
\* response, also when other outcomes of the invocation are hard blocks:
\* no advisory is marked shown without having been surfaced.
C33_MarkedShownIsSurfaced ==
    [][(Mapped(ret') /\ ret'.event = "PostToolUse")
          => ShownIsSurfaced(fb, fb', ret', now)]_vars

\* Reached: beside a block the advisory's row is marked shown and the
\* response holds the block's reason and no additionalContext.
C33_Reach_ShownBesideBlock ==
    /\ Mapped(ret) /\ ret.event = "PostToolUse"
    /\ ret.results = <<blocker, advisory_x>>
    /\ ret.response.decision = "block"
    /\ ret.response.hookSpecificOutput = NoOutput
    /\ fb[issue_of(advisory_x)].times_shown = 1
    /\ fb[issue_of(advisory_x)].occurrence_count = 1

\* Reached: the invocation that follows has no block, and the advisory,
\* which no response has held so far, is suppressed.
C33_Reach_NeverSeen ==
    /\ Mapped(ret) /\ ret.event = "PostToolUse"
    /\ ret.results = <<advisory_x>>
    /\ ret.response = Continue
    /\ issue_of(advisory_x) \notin DOMAIN prev
    /\ fb[issue_of(advisory_x)].times_shown = 1
    /\ fb[issue_of(advisory_x)].occurrence_count = 2

\* Without a hard block among the outcomes, what is marked shown is in the
\* response.
C33_Aside_WithoutBlocks ==
    [][(/\ Mapped(ret') /\ ret'.event = "PostToolUse"
        /\ blocks_of(ret'.results, ret'.block_on) = <<>>)
          => ShownIsSurfaced(fb, fb', ret', now)]_vars

\* Reached: an advisory is marked shown and is in the response.
C33_Reach_Surfaced ==
    /\ Mapped(ret) /\ ret.event = "PostToolUse"
    /\ ret.results = <<advisory_x>>
    /\ fb[issue_of(advisory_x)].times_shown = 1
    /\ ret.response.hookSpecificOutput.additionalContext = <<"warn x">>

(***************************************************************************)
(* Harvested feedback in the response.                                     *)
(***************************************************************************)
\* The outcomes main() has made of harvested feedback values: their task id
\* is the source of an imported row.
Harvested(r) == SelectSeq(r.results, LAMBDA a : a.task_id = "external-json")

\* Every line the response holds, in any of its texts.
LinesOf(response) ==
    Range(response.hookSpecificOutput.additionalContext)
        \cup Range(response.hookSpecificOutput.permissionDecisionReason)
        \cup Range(response.reason) \cup Range(response.stopReason)
        \cup Range(response.systemMessage)

InResponse(response, content) ==
    \A k \in 1..Len(text_of(content)) : text_of(content)[k] \in LinesOf(response)

\* C34: every background task row that harvest consumes with a feedback
\* value has that text in the response of the same invocation, for every
\* event and every combination of other outcomes: the result of a consumed
\* row is never dropped after the row is deleted.
C34_HarvestedInResponse ==
    [][Mapped(ret') =>
          \A k \in 1..Len(Harvested(ret')) :
              InResponse(ret'.response, Harvested(ret')[k].add_context)]_vars

\* Reached: a row is consumed beside a block; the response holds the
\* block's reason and not the row's feedback.
C34_Reach_DroppedBesideBlock ==
    /\ Mapped(ret) /\ ret.event = "Stop"
    /\ Len(ret.results) = 3
    /\ ret.results[1] = blocker
    /\ Len(Harvested(ret)) = 1
    /\ ret.response.decision = "block"
    /\ ret.response.reason = <<"no">>
    /\ \A id \in TaskIds : q[id] = NoTask \/ q[id].status \notin {"completed", "failed"}

\* Outside PostToolUse and without a hard block, the harvested feedback of
\* the session's invocations is in the response.
C34_Aside_WithoutBlocks ==
    [][(/\ Mapped(ret') /\ ret'.event # "PostToolUse"
        /\ blocks_of(ret'.results, ret'.block_on) = <<>>) =>
          \A k \in 1..Len(Harvested(ret')) :
              InResponse(ret'.response, Harvested(ret')[k].add_context)]_vars

\* Reached: the feedback of a consumed row is in the response.
C34_Reach_Included ==
    /\ Mapped(ret) /\ ret.event = "Stop"
    /\ Len(Harvested(ret)) = 1
    /\ ret.response.hookSpecificOutput.additionalContext = <<"finding">>

(***************************************************************************)
(* A task that is over within its timeout, and its siblings.               *)
(***************************************************************************)
\* Every future has been waited for: the result list is complete.
WaitedForAll == run.pc \in {"shutdown", "returned"}

\* The body of descriptor i returns, and takes less than the timeout of i.
InTimeBody(i) ==
    /\ batch.descs[i].body.does = "ok"
    /\ batch.descs[i].body.dur < wait_timeout(batch, i)

Contributes(i) ==
    /\ ~Abandoned(i)
    /\ OutcomesOf(run.results, i) = stamp(batch.descs[i].body.out, desc_id(i))

\* C35: in a batch, a task whose own body completes within its timeout
\* always contributes its own returned outcomes and never a timeout
\* warning, whatever the other tasks of the batch do and whatever the
\* worker cap is relative to the number of descriptors.
C35_InTimeBodyContributes ==
    WaitedForAll => \A i \in 1..Len(batch.descs) : InTimeBody(i) => Contributes(i)

\* Reached: with one worker, a task that takes one tick of its two is
\* behind a task that hangs, never starts, and gets the timeout warning.
C35_Reach_WarnedUnstarted ==
    /\ WaitedForAll
    /\ pool_size(batch) = 1
    /\ Len(batch.descs) = 2
    /\ batch.descs[1].body.does = "hang"
    /\ InTimeBody(2)
    /\ wk[2].state = "queued"
    /\ OutcomesOf(run.results, 2) = <<wait_error(desc_id(2), "")>>

\* With a worker for every descriptor the claim holds.
C35_Aside_WorkerEach ==
    (WaitedForAll /\ pool_size(batch) >= Len(batch.descs)) =>
        \A i \in 1..Len(batch.descs) : InTimeBody(i) => Contributes(i)

\* Reached: beside a task that hangs and has a worker of its own, the
\* task that is over in time contributes its outcome.
C35_Reach_BesideHang ==
    /\ WaitedForAll
    /\ pool_size(batch) = 2
    /\ batch.descs[1].body.does = "hang"
    /\ Abandoned(1)
    /\ InTimeBody(2)
    /\ Contributes(2)

(***************************************************************************)
(* The result list of a batch.                                             *)
(***************************************************************************)
\* One synthesized warning of descriptor i: not blocking, with its id and
\* a reason, and nothing else set.
IsWarning(a, i) ==
    /\ ~a.block
    /\ a.task_id = desc_id(i)
    /\ a.reason # None
    /\ a.add_context = NoText /\ ~a.end_turn /\ a.permission_decision = None

\* C36: the outcomes are grouped by descriptor in submission order, and
\* each descriptor contributes either the outcomes its callable returned or
\* exactly one synthesized non-blocking warning, never both: what a task
\* produces after the runner stopped waiting for it is discarded.
C36_GroupedEitherOr ==
    WaitedForAll =>
        /\ \A k, l \in 1..Len(run.results) : k < l => run.results[k].by <= run.results[l].by
        /\ \A i \in 1..Len(batch.descs) :
              LET mine == OutcomesOf(run.results, i)
                  body == batch.descs[i].body
                  returned == stamp(body.out, desc_id(i))
              IN  /\ \/ body.does = "ok" /\ mine = returned
                     \/ Len(mine) = 1 /\ IsWarning(mine[1], i)
                  /\ Abandoned(i) => Len(mine) = 1
                  /\ (wk[i].state = "done" /\ body.does = "ok" /\ Abandoned(i)) =>
                        \A k \in 1..Len(returned) : returned[k] \notin Range(mine)

\* Reached: run has returned; the first task came back with two outcomes
\* after the runner had stopped waiting for it and contributes the warning
\* alone, the second contributes what it returned.
C36_Witness ==
    /\ run.pc = "returned"
    /\ Len(batch.descs) = 2
    /\ batch.descs[1].body.does = "ok" /\ Len(batch.descs[1].body.out) = 2
    /\ wk[1].state = "done"
    /\ Abandoned(1)
    /\ OutcomesOf(run.results, 1) = <<wait_error(desc_id(1), "")>>
    /\ batch.descs[2].body.does = "ok"
    /\ Contributes(2)
    /\ Len(run.results) = 2

(***************************************************************************)
(* A process that exited in time and is polled late.                       *)
(***************************************************************************)
\* The row is running, its process is gone without a word on stderr, and
\* more than its timeout has passed since it started.
ExitedPolledLate(row, files, t) ==
    /\ row # NoTask
    /\ row.status = "running"
    /\ files.state = "gone"
    /\ files.stderr = ""
    /\ t - row.started_at > row.timeout

\* C37: poll tests the timeout before it probes the process: a running
\* task whose process has exited with empty stderr, first polled after its
\* timeout has passed since started_at, is marked failed with the timeout
\* error and not completed, and its exit_code stays unset.
C37_TimeoutBeforeProbe ==
    [][ret'.op = "poll" =>
          \A id \in TaskIds :
              ExitedPolledLate(q[id], procs[id], now) =>
                  /\ q'[id].status = "failed"
                  /\ q'[id].error = [kind |-> "timeout", seconds |-> q[id].timeout]
                  /\ q'[id].exit_code = NoCode
                  /\ q'[id].completed_at = now
                  /\ id \in Range(ret'.ids)]_vars

\* Reached: a task with a timeout of 60 s whose process wrote its feedback
\* and exited is polled 61 s after its start and has failed.
C37_Witness ==
    /\ ret.op = "poll"
    /\ \E id \in TaskIds :
          /\ q[id] # NoTask
          /\ q[id].status = "failed"
          /\ q[id].error = [kind |-> "timeout", seconds |-> 60]
          /\ q[id].exit_code = NoCode
          /\ now - q[id].started_at = 61
          /\ procs[id].state = "gone"
          /\ procs[id].stderr = ""
          /\ q[id].stdout = "json_feedback"



(***************************************************************************)
(* The life of a background task over a session the host keeps invoking.  *)
(***************************************************************************)
LiveMaxTime == 183      \* the clock of the live session stops advancing past this

\* What the children of the live session may write before they exit; a child
\* may also hang.
LiveRuns == {<<"json_feedback", "", TRUE>>, <<"json_words", "", TRUE>>}

\* A task file arrives while the clock can still pass the timeout (60 s) of
\* the tasks that run when it arrives.
LiveDrop ==
    /\ "task" \notin incoming
    /\ nextId < Cardinality(TaskIds)
    /\ now + 60 < LiveMaxTime
    /\ incoming' = incoming \cup {"task"}
    /\ ret' = [op |-> "drop", kind |-> "task"]
    /\ UNCHANGED <<diskVars, now, fbVars, q, procs, nextId, cap, runVars>>

\* The host's hook: a Stop event for which one task is selected.
LiveInvoke == InvokeTasks("Stop", <<>>, <<advisory_x>>)

LiveTick == \E d \in QTickSteps : Tick(d, LiveMaxTime)

LiveNext ==
    \/ LiveTick
    \/ LiveDrop
    \/ \E id \in TaskIds, r \in LiveRuns : ProcStep(id, r[1], r[2], r[3])
    \/ LiveInvoke

\* The host keeps invoking and time advances; no child is obliged to exit.
SpecLive == RouterInit /\ [][LiveNext]_vars /\ WF_vars(LiveInvoke) /\ WF_vars(LiveTick)

IsRunning(row) == row # NoTask /\ row.status = "running"

\* The model's clock can pass the timeout of a running row.
CanTimeOut(row) == IsRunning(row) /\ row.started_at + row.timeout < LiveMaxTime

\* A finished row whose stdout makes _parse_task_output raise.
Raises(row) == Finished(row) /\ parse_task_output(row) = AttributeError

Imported == "task" \in incoming ~> "task" \notin incoming
Spawned == \A id \in TaskIds : Pending(q[id]) ~> ~Pending(q[id])
Ended == \A id \in TaskIds : CanTimeOut(q[id]) ~> ~IsRunning(q[id])
EndsInTime ==
    \A id \in TaskIds :
        IsRunning(q[id]) => (ret.op = "invoke" => now - q[id].started_at <= q[id].timeout)
Deleted == \A id \in TaskIds : Finished(q[id]) ~> q[id] = NoTask

\* C38: while the host keeps invoking with a selected task and time advances,
\* a task file is eventually imported, every pending row is eventually
\* spawned or failed, every running row eventually completed or failed
\* (no invocation leaves a row running past its timeout), and every finished
\* row is eventually deleted by harvest.
C38_EveryTaskEnds == Imported /\ Spawned /\ Ended /\ []EndsInTime /\ Deleted

\* A finished row stays over an invocation that raised.
C38_Reach_RowStays ==
    /\ ret.op = "invoke"
    /\ ret.stage = "aborted"
    /\ \E id \in TaskIds : Raises(q[id])

\* A pending row waits for a slot beside two running rows.
C38_Reach_Waits ==
    /\ \E id \in TaskIds : Pending(q[id])
    /\ Cardinality({id \in TaskIds : IsRunning(q[id])}) = 2

\* Without a row that makes the conversion raise every task ends: it is
\* imported, spawned, finished and then deleted, or a row that raises is in
\* the way.
C38_Aside_WellFormed ==
    /\ Imported
    /\ Spawned
    /\ Ended
    /\ []EndsInTime
    /\ \A id \in TaskIds :
          Finished(q[id]) ~> (q[id] = NoTask \/ \E other \in TaskIds : Raises(q[other]))

\* A row that timed out was deleted by the invocation that failed it.
C38_Reach_TimedOutDeleted ==
    /\ ret.op = "invoke"
    /\ ret.stage = "mapped"
    /\ \E k \in 1..Len(ret.results) :
          ret.results[k].add_context =
              content_of("Background task failed: Task timed out after 60s")


(***************************************************************************)
(* The identity of an issue: which advisories share a row.                 *)
(***************************************************************************)
Advisory(text, task, file) == [content |-> text, task_id |-> task, file_path |-> file]

\* The advisories of the session: a text, the same text with another ending
\* after its first 100 characters, the text for a file, for a file of the
\* same name in another directory and for a file named "global", the text
\* from another task, and another text.
IdentityInputs ==
    {Advisory([head |-> "warn x", tail |-> ""], "lint", NoFile),
     Advisory([head |-> "warn x", tail |-> "more"], "lint", NoFile),
     Advisory([head |-> "warn x", tail |-> ""], "lint", [dir |-> "a", name |-> "f.py"]),
     Advisory([head |-> "warn x", tail |-> ""], "lint", [dir |-> "b", name |-> "f.py"]),
     Advisory([head |-> "warn x", tail |-> ""], "lint", [dir |-> "a", name |-> "global"]),
     Advisory([head |-> "warn x", tail |-> ""], "sec", NoFile),
     Advisory([head |-> "warn y", tail |-> ""], "lint", NoFile)}

Advise(a) == ShowOncePass(a.content, a.task_id, a.file_path)

IdentityNext ==
    \/ \E d \in TickSteps : Tick(d, RouterMaxTime)
    \/ \E a \in IdentityInputs : Advise(a)
    \/ CleanupSession

SpecIdentity == FbInit /\ [][IdentityNext]_vars

\* The same file basename, or both no file.
SameFile(f, g) ==
    IF f = NoFile \/ g = NoFile THEN f = g ELSE f.name = g.name

\* The advisory and the row agree in task id, file basename and the first
\* 100 characters of the content.
SameIssue(a, row) ==
    /\ a.task_id = row.task_id
    /\ SameFile(a.file_path, row.file_path)
    /\ a.content.head = row.content.head

\* The pass of advisory a updated the row of issue i.
Updates(a, i) ==
    /\ fb'[i] # NoRow
    /\ fb'[i].occurrence_count = fb[i].occurrence_count + 1
    /\ fb'[i].content = a.content
    /\ fb'[i].last_seen = now

\* The pass of advisory a meets the live rows of the session: it updates the
\* row it is the same issue as, and that one only, and is suppressed when
\* that row was shown.
MeetsRows(a) ==
    \A i \in IssueIds :
        Live(fb[i], now) =>
            /\ SameIssue(a, fb[i]) <=> Updates(a, i)
            /\ (SameIssue(a, fb[i]) /\ fb[i].times_shown > 0) => ~ret'.show

\* C39: two advisories of a session are the same issue iff they have the
\* same task id, the same file basename (or both no file) and the same first
\* 100 characters of content: the dedup pass of an advisory updates the live
\* row of an earlier advisory (occurrence_count incremented, content
\* replaced) exactly when the two agree in these three, and is then
\* suppressed when the row was shown.
C39_SameIssueSameRow ==
    [][\A a \in IdentityInputs : Advise(a) => MeetsRows(a)]_vars

\* Reached: the advisory for the file named "global" is suppressed by the
\* row of the advisory that has no file.
C39_Reach_GlobalCollides ==
    /\ ret.op = "show_once_pass"
    /\ ~ret.show
    /\ ret.issue = <<"lint", "global", "warn x">>
    /\ ret.item.file_path = NoFile
    /\ ret.item.occurrence_count = 2
    /\ \A i \in IssueIds : i # ret.issue => fb[i] = NoRow

HasFile(a) == a.file_path # NoFile

\* Among advisories that do not pair a file named "global" with no file the
\* rule holds.
C39_Aside_NamedFiles ==
    [][\A a \in IdentityInputs :
          Advise(a) =>
              \A i \in IssueIds :
                  (Live(fb[i], now) /\ (HasFile(a) <=> HasFile(fb[i]))) =>
                      /\ SameIssue(a, fb[i]) <=> Updates(a, i)
                      /\ (SameIssue(a, fb[i]) /\ fb[i].times_shown > 0) => ~ret'.show]_vars

\* Reached: an advisory that differs from a shown one only in the directory
\* of its file is suppressed and its row updated.
C39_Reach_OtherDirectory ==
    /\ ret.op = "show_once_pass"
    /\ ~ret.show
    /\ ret.issue = <<"lint", "f.py", "warn x">>
    /\ ret.item.occurrence_count = 2
    /\ ret.item.times_shown = 1

\* Reached: an advisory that differs from a shown one only after its first
\* 100 characters is suppressed and replaces the row's content.
C39_Reach_OtherEnding ==
    /\ ret.op = "show_once_pass"
    /\ ~ret.show
    /\ ret.old # NoRow
    /\ ret.old.content = [head |-> "warn x", tail |-> ""]
    /\ ret.item.content = [head |-> "warn x", tail |-> "more"]
    /\ ret.item.occurrence_count = ret.old.occurrence_count + 1

====
